---- MODULE Spec2Model ----
(***************************************************************************)
(* The voice-allocation engine of juce::MPESynthesiser                     *)
(* (modules/juce_audio_basics/mpe/juce_MPESynthesiser.cpp): the voice      *)
(* pool, the free-voice search, the voice-stealing heuristic and the       *)
(* note-lifecycle handlers.  Spec, SpecEngine and SpecSteal take a handler  *)
(* as one atomic action; SpecLocks and SpecAdds take the handlers line by  *)
(* line, on two threads, with voicesLock and stealLock; SpecLocksFair is   *)
(* SpecLocks on small pools with every thread scheduled fairly.            *)
(***************************************************************************)
EXTENDS Integers, Sequences, FiniteSets, TLC

\* ------------------------------------------------------------------ bounds
\* The largest pool the engine specification builds.
MaxVoices == 2
\* The cap on lastNoteOnCounter (a uint32 in the program, far below its wrap).
MaxCounter == 2
\* The largest pool the stealing heuristic is applied to in SpecSteal.
MaxStealVoices == 3
\* The largest pool of the specification of threads, and the calls a thread
\* makes in it.
MaxLockVoices == 3
MaxCalls == 1

\* ----------------------------------------------------------------- domains
VoiceIds == 1..MaxVoices
StealVoiceIds == 1..MaxStealVoices
LockVoiceIds == 1..MaxLockVoices
AllVoiceIds == VoiceIds \cup StealVoiceIds \cup LockVoiceIds

\* nullptr, as returned by findFreeVoice / findVoiceToSteal.
NoVoice == 0

\* MPENote::KeyState.
KeyStates == {"off", "keyDown", "sustained", "keyDownAndSustained"}

\* The initialNote values and MIDI channels the upstream instrument delivers
\* to the engine specification.
NoteNumbers == {60, 61}
Channels == {1}

\* An MPENote: its identity (midiChannel, initialNote), its keyState and the
\* values of its dimensions, which are 0 until an event brings another.
MPENote(ch, n, ks) ==
    [midiChannel |-> ch, initialNote |-> n, keyState |-> ks,
     pressure |-> 0, pitchbend |-> 0, timbre |-> 0, noteOffVelocity |-> 0]

\* MPENote(): the default-constructed, invalid note ("{}" in reduceNumVoices).
NoNote == MPENote(0, 0, "off")

\* MPENote::isValid.
isValid(note) == note.midiChannel > 0

\* The notes a note-start can carry: a key has just gone down.
StartNotes == {MPENote(ch, n, "keyDown") : ch \in Channels, n \in NoteNumbers}

\* The notes a key-state change can carry: the note is still held or sustained.
ChangeNotes ==
    {MPENote(ch, n, ks) : ch \in Channels, n \in NoteNumbers,
                          ks \in {"keyDown", "sustained", "keyDownAndSustained"}}

\* The value of a dimension that an event brings.
Moved == 1

\* The notes a pressure, pitchbend or timbre change can carry: a note whose
\* key is down, with the dimension moved.
PressureNotes == {[n EXCEPT !.pressure = Moved] : n \in StartNotes}
PitchbendNotes == {[n EXCEPT !.pitchbend = Moved] : n \in StartNotes}
TimbreNotes == {[n EXCEPT !.timbre = Moved] : n \in StartNotes}

\* The notes a release can carry: the key is up and nothing sustains the note.
ReleaseNotes == {MPENote(ch, n, "off") : ch \in Channels, n \in NoteNumbers}

\* The notes the voices of a pool hold when the stealing heuristic is tried
\* on its own, and the notes a voice is asked for: no note, a note some voice
\* may hold, and a note (61) no voice holds.
StealNoteNumbers == {40, 60, 80}
StealNotes == {MPENote(1, n, ks) : n \in StealNoteNumbers, ks \in KeyStates}
StealRequests == {NoNote} \cup {MPENote(1, n, "keyDown") : n \in StealNoteNumbers \cup {61}}

\* --------------------------------------------------------------- the state
VARIABLES
    voices,                    \* OwnedArray<MPESynthesiserVoice>: the pool, in order
    currentlyPlayingNote,      \* per voice: MPESynthesiserVoice::currentlyPlayingNote
    noteOnTime,                \* per voice: MPESynthesiserVoice::noteOnTime
    lastNoteOnCounter,         \* MPESynthesiser::lastNoteOnCounter
    shouldStealVoices,         \* MPESynthesiser::shouldStealVoices
    usableVoicesToStealArray,  \* the scratch array of findVoiceToSteal
    numAllocated,              \* the elements the scratch array has storage for
    hookLog,                   \* the voice callbacks the last handler made, in order
    lastOp,                    \* the voice search of the last handler and its outcome
    threads,                   \* per thread: the call it is in and where in it
    locks,                     \* voicesLock and stealLock: owner and depth
    races                      \* the lines that touched the pool or a voice without voicesLock

vars == <<voices, currentlyPlayingNote, noteOnTime, lastNoteOnCounter,
          shouldStealVoices, usableVoicesToStealArray, numAllocated, hookLog, lastOp,
          threads, locks, races>>

\* What the specifications of whole handlers leave alone: there a handler is
\* one step, taken with voicesLock free and leaving it free.
concurrency == <<threads, locks, races>>

\* The threads that call into the engine.
Threads == {"t1", "t2"}

\* A thread in a call: the handler and its argument (a note, or the number
\* of voices to keep), the line it is at, and its locals: the loop index i,
\* the voice it is calling, the voice findFreeVoice found and where that
\* returns to.  hits and log record, for the call, the voices that played
\* the note when the call got voicesLock and the voices it has called since;
\* rates records the voices it has given the sample rate; allowTailOff is
\* the argument of turnOffAllVoices; calls counts the calls the thread has
\* made.
Call(op, pc, note, n, calls) ==
    [op |-> op, pc |-> pc, note |-> note, n |-> n, i |-> 0, voice |-> NoVoice,
     found |-> NoVoice, ret |-> "", hits |-> <<>>, log |-> <<>>, rates |-> <<>>,
     allowTailOff |-> FALSE, calls |-> calls]

\* A thread that is in no call of the engine and has made none.
Returned == Call("none", "returned", MPENote(0, 0, "off"), 0, 0)

\* A CriticalSection that no thread has entered.
NoOwner == "none"
Unlocked == [owner |-> NoOwner, depth |-> 0]

\* No thread is in a call and both locks are free.
quiet ==
    /\ threads = [t \in Threads |-> Returned]
    /\ locks = [voicesLock |-> Unlocked, stealLock |-> Unlocked]
    /\ races = {}

\* A lifecycle callback of a voice, with the two fields the engine writes for
\* it as the voice finds them when it is called.
Hook(voice, name, note, time) ==
    [voice |-> voice, hook |-> name, note |-> note, noteOnTime |-> time]

\* A render call of a voice: the engine writes no field for it.
Rendered(voice) == Hook(voice, "renderNextBlock", NoNote, 0)

\* What a handler that looks for a voice leaves in lastOp: the handler, the
\* note it looked for, the voice found (for reduceNumVoices: none), whether
\* findVoiceToSteal was called and the assertions that failed.
Op(name, note, voice, stole, asserts) ==
    [op |-> name, note |-> note, voice |-> voice, stole |-> stole, asserts |-> asserts]

\* What every other handler leaves in lastOp.
NoSearch == Op("none", NoNote, NoVoice, FALSE, {})

\* Array::ensureStorageAllocated (minNumElements): the storage of the array
\* after it, no less than asked for and never given back.
ensureStorageAllocated(allocated, minNumElements) ==
    IF minNumElements > allocated THEN minNumElements ELSE allocated

\* ------------------------------------------------------- the voice's answers
\* MPESynthesiserVoice::isActive: the voice holds a note.  A voice that has
\* stopped sounding has put MPENote() in the note's place (clearCurrentNote).
isActive(voice) == isValid(currentlyPlayingNote[voice])

\* MPESynthesiserVoice::isPlayingButReleased.
isPlayingButReleased(voice) ==
    isActive(voice) /\ currentlyPlayingNote[voice].keyState = "off"

\* getCurrentlyPlayingNote().initialNote
initialNoteOf(voice) == currentlyPlayingNote[voice].initialNote

\* The identity of a note (MPENote::noteID is made of these two).
noteID(note) == <<note.midiChannel, note.initialNote>>

\* MPESynthesiserVoice::isCurrentlyPlayingNote.
isCurrentlyPlayingNote(voice, note) ==
    isActive(voice) /\ noteID(currentlyPlayingNote[voice]) = noteID(note)

\* ------------------------------------------------------------- sequences
\* The voices of a pool, as a set.
members(pool) == {pool[i] : i \in 1..Len(pool)}

\* The pool without the voices of a set, the others in their order.
without(pool, gone) == SelectSeq(pool, LAMBDA v : v \notin gone)

\* The pool from its last voice to its first.
reversed(pool) == [i \in 1..Len(pool) |-> pool[Len(pool) + 1 - i]]

\* The least member of a nonempty set of numbers.
minIndex(S) == CHOOSE i \in S : \A j \in S : i <= j

\* The greatest member of a nonempty set of numbers.
maxIndex(S) == CHOOSE i \in S : \A j \in S : i >= j

\* ------------------------------------------------------- findVoiceToSteal
\* A Sorter that puts the voice started last first: SortOnceSame tells it
\* from the real one.
SorterNewestFirst(a, b) == noteOnTime[a] > noteOnTime[b]

\* struct Sorter: a before b.
Sorter(a, b) == noteOnTime[a] < noteOnTime[b]

\* One element put in its place in an array already in Sorter order.
RECURSIVE insertSorted(_, _)
insertSorted(arr, v) ==
    IF arr = <<>> THEN <<v>>
    ELSE IF Sorter(v, Head(arr)) THEN <<v>> \o arr
    ELSE <<Head(arr)>> \o insertSorted(Tail(arr), v)

\* std::sort (begin, end, Sorter()): the array in ascending noteOnTime.  The
\* voices of one search hold pairwise distinct noteOnTime (StealKeysDistinct),
\* so the order std::sort leaves is the one ascending order there is.
RECURSIVE sortArray(_)
sortArray(arr) ==
    IF arr = <<>> THEN <<>>
    ELSE insertSorted(sortArray(SubSeq(arr, 1, Len(arr) - 1)), arr[Len(arr)])

\* A search that leaves in the scratch array what it finds there:
\* ScratchUnderStealLock tells it from clearArray.
clearArrayKept(arr) == arr

\* usableVoicesToStealArray.clear()
clearArray(arr) == <<>>

\* An update of low that lets a voice with the same note take the place of
\* low: ProtectedExtremes tells it from scanLow.
scanLowLatest(low, voice) ==
    IF isPlayingButReleased(voice) THEN low
    ELSE IF low = NoVoice \/ initialNoteOf(voice) <= initialNoteOf(low) THEN voice
    ELSE low

\* The update of low in the scan: an unreleased voice takes the place of low
\* when there is none yet or its note is lower.
scanLow(low, voice) ==
    IF isPlayingButReleased(voice) THEN low
    ELSE IF low = NoVoice \/ initialNoteOf(voice) < initialNoteOf(low) THEN voice
    ELSE low

\* The update of top in the scan: an unreleased voice takes the place of top
\* when there is none yet or its note is higher.
scanTop(top, voice) ==
    IF isPlayingButReleased(voice) THEN top
    ELSE IF top = NoVoice \/ initialNoteOf(voice) > initialNoteOf(top) THEN voice
    ELSE top

\* The scan of the pool: each voice is added to the scratch array, the array
\* is sorted again, and low and top are brought up to date.
RECURSIVE stealScan(_, _, _)
stealScan(pool, i, st) ==
    IF i > Len(pool) THEN st
    ELSE LET voice == pool[i] IN
         stealScan(pool, i + 1,
             [array   |-> sortArray(Append(st.array, voice)),
              low     |-> scanLow(st.low, voice),
              top     |-> scanTop(st.top, voice),
              asserts |-> IF isActive(voice) THEN st.asserts
                          ELSE st.asserts \cup {"voice->isActive()"}])

\* A search that keeps top when it is low as well: ProtectedOnce tells it
\* from eliminatePathological.
eliminateNothing(low, top) == top

\* if (top == low) top = nullptr;
eliminatePathological(low, top) == IF top = low THEN NoVoice ELSE top

\* for (auto* voice : array) if (test) return voice;  the first voice of the
\* array, in array order, among those that pass the test; nullptr when none does.
firstWhere(arr, passing) ==
    LET hits == {i \in 1..Len(arr) : arr[i] \in passing} IN
    IF hits = {} THEN NoVoice ELSE arr[minIndex(hits)]

\* A same-pitch rule that returns the newest voice playing the note number
\* instead of the oldest: SamePitchOldest tells it from stealSamePitch.
stealSamePitchNewest(arr, noteToStealVoiceFor) ==
    LET hits == {i \in 1..Len(arr) : initialNoteOf(arr[i]) = noteToStealVoiceFor.initialNote} IN
    IF isValid(noteToStealVoiceFor) /\ hits # {} THEN arr[maxIndex(hits)] ELSE NoVoice

\* The oldest voice playing the note number of the note to start.
stealSamePitch(arr, noteToStealVoiceFor) ==
    IF isValid(noteToStealVoiceFor)
        THEN firstWhere(arr, {v \in members(arr) :
                                 initialNoteOf(v) = noteToStealVoiceFor.initialNote})
        ELSE NoVoice

\* The oldest voice that has been released.
stealReleased(arr, low, top) ==
    firstWhere(arr, {v \in members(arr) :
                        v # low /\ v # top /\ isPlayingButReleased(v)})

\* A no-finger rule that asks only for keyState != keyDown, so that a voice
\* whose key is down and sustained passes: BucketOrder tells it from
\* stealNoFinger.
stealNoFingerKeyDown(arr, low, top) ==
    firstWhere(arr, {v \in members(arr) :
                        /\ v # low /\ v # top
                        /\ currentlyPlayingNote[v].keyState # "keyDown"})

\* The oldest voice that doesn't have a finger on it.
stealNoFinger(arr, low, top) ==
    firstWhere(arr, {v \in members(arr) :
                        /\ v # low /\ v # top
                        /\ currentlyPlayingNote[v].keyState # "keyDown"
                        /\ currentlyPlayingNote[v].keyState # "keyDownAndSustained"})

\* A last loop that protects low only: ExtremalKeepsLowAndTop tells it from
\* stealUnprotected.
stealUnprotectedTop(arr, low, top) ==
    firstWhere(arr, {v \in members(arr) : v # low})

\* The oldest voice that isn't protected.
stealUnprotected(arr, low, top) ==
    firstWhere(arr, {v \in members(arr) : v # low /\ v # top})

\* An end that gives up when only protected voices are left:
\* StealAlwaysFinds tells it from stealProtected.
stealProtectedNone(low, top) == NoVoice

\* An end that gives up low before top: ProtectedTopFirst tells it from
\* stealProtected.
stealProtectedLow(low, top) == IF low # NoVoice THEN low ELSE top

\* Only protected voices are left: top goes before low.
stealProtected(low, top) == IF top # NoVoice THEN top ELSE low

\* MPESynthesiser::findVoiceToSteal, with voices = pool and the scratch array
\* as it was left: the voice returned, the scratch array afterwards, low and
\* top as used, and the assertions that failed on the way (a failed jassert
\* logs and goes on; it is compiled out of a release build).
findVoiceToSteal(pool, scratch, noteToStealVoiceFor) ==
    LET st  == stealScan(pool, 1,
                   [array   |-> clearArray(scratch),
                    low     |-> NoVoice,
                    top     |-> NoVoice,
                    asserts |-> IF Len(pool) > 0 THEN {} ELSE {"voices.size() > 0"}])
        arr == st.array
        low == st.low
        top == eliminatePathological(st.low, st.top)
        r1  == stealSamePitch(arr, noteToStealVoiceFor)
        r2  == stealReleased(arr, low, top)
        r3  == stealNoFinger(arr, low, top)
        r4  == stealUnprotected(arr, low, top)
        found(r) == [voice |-> r, array |-> arr, low |-> low, top |-> top,
                     asserts |-> st.asserts]
    IN  IF r1 # NoVoice THEN found(r1)
        ELSE IF r2 # NoVoice THEN found(r2)
        ELSE IF r3 # NoVoice THEN found(r3)
        ELSE IF r4 # NoVoice THEN found(r4)
        ELSE [voice   |-> stealProtected(low, top),
              array   |-> arr, low |-> low, top |-> top,
              asserts |-> IF low # NoVoice THEN st.asserts
                          ELSE st.asserts \cup {"low != nullptr"}]

\* --------------------------------------------------------- findFreeVoice
\* A scan that keeps the last idle voice it meets instead of returning the
\* first: IdleFirst tells the two apart.
lastIdle(pool, i) ==
    LET idle == {j \in i..Len(pool) : ~isActive(pool[j])} IN
    IF idle = {} THEN NoVoice ELSE pool[maxIndex(idle)]

\* for (auto* voice : voices) if (! voice->isActive()) return voice;
RECURSIVE firstIdle(_, _)
firstIdle(pool, i) ==
    IF i > Len(pool) THEN NoVoice
    ELSE IF ~isActive(pool[i]) THEN pool[i]
    ELSE firstIdle(pool, i + 1)

\* A search that goes to findVoiceToSteal whatever stealIfNoneAvailable says:
\* StealOnlyWhenAllowed tells it from findFreeVoice.
findFreeVoiceStealing(pool, scratch, noteToFindVoiceFor, stealIfNoneAvailable) ==
    LET idle == firstIdle(pool, 1)
        s    == findVoiceToSteal(pool, scratch, noteToFindVoiceFor) IN
    IF idle # NoVoice
        THEN [voice |-> idle, stole |-> FALSE, array |-> scratch, asserts |-> {}]
        ELSE [voice |-> s.voice, stole |-> TRUE, array |-> s.array, asserts |-> s.asserts]

\* MPESynthesiser::findFreeVoice, with voices = pool and the scratch array as
\* it was left: the voice returned, whether findVoiceToSteal was called, the
\* scratch array afterwards and the assertions that failed.
findFreeVoice(pool, scratch, noteToFindVoiceFor, stealIfNoneAvailable) ==
    LET idle == firstIdle(pool, 1) IN
    IF idle # NoVoice
        THEN [voice |-> idle, stole |-> FALSE, array |-> scratch, asserts |-> {}]
    ELSE IF stealIfNoneAvailable
        THEN LET s == findVoiceToSteal(pool, scratch, noteToFindVoiceFor) IN
             [voice |-> s.voice, stole |-> TRUE, array |-> s.array,
              asserts |-> s.asserts]
    ELSE [voice |-> NoVoice, stole |-> FALSE, array |-> scratch, asserts |-> {}]

\* ------------------------------------------------------------- handlers
\* A start that calls noteStarted() before it writes the stamp: the voice
\* finds its old noteOnTime.  StartWritesThenCalls tells it from startVoice.
startVoiceHookFirst(voice, noteToStart) ==
    LET notes == [currentlyPlayingNote EXCEPT ![voice] = noteToStart]
        times == [noteOnTime EXCEPT ![voice] = lastNoteOnCounter]
    IN  /\ currentlyPlayingNote' = notes
        /\ noteOnTime' = times
        /\ lastNoteOnCounter' = lastNoteOnCounter + 1
        /\ hookLog' = <<Hook(voice, "noteStarted", notes[voice], noteOnTime[voice])>>

\* MPESynthesiser::startVoice: the note, then the stamp and the counter, then
\* the voice's noteStarted(), which finds both written.
startVoice(voice, noteToStart) ==
    LET notes == [currentlyPlayingNote EXCEPT ![voice] = noteToStart]
        times == [noteOnTime EXCEPT ![voice] = lastNoteOnCounter]
    IN  /\ currentlyPlayingNote' = notes
        /\ noteOnTime' = times
        /\ lastNoteOnCounter' = lastNoteOnCounter + 1
        /\ hookLog' = <<Hook(voice, "noteStarted", notes[voice], times[voice])>>

\* A noteAdded that takes the stamp from the counter before it knows whether
\* there is a voice to give it to: DroppedWhenFull tells it from noteAdded.
noteAddedCounting(newNote) ==
    LET r == findFreeVoice(voices, usableVoicesToStealArray, newNote,
                           shouldStealVoices) IN
    /\ lastNoteOnCounter < MaxCounter
    /\ usableVoicesToStealArray' = r.array
    /\ numAllocated' = ensureStorageAllocated(numAllocated, Len(r.array))
    /\ IF r.voice # NoVoice
          THEN startVoice(r.voice, newNote)
          ELSE /\ hookLog' = <<>>
               /\ lastNoteOnCounter' = lastNoteOnCounter + 1
               /\ UNCHANGED <<currentlyPlayingNote, noteOnTime>>
    /\ UNCHANGED concurrency
    /\ lastOp' = Op("noteAdded", newNote, r.voice, r.stole, r.asserts)
    /\ UNCHANGED <<voices, shouldStealVoices>>

\* MPESynthesiser::noteAdded.  A start that would take the counter past
\* MaxCounter is left out; a note that finds no voice leaves the counter alone.
noteAdded(newNote) ==
    LET r == findFreeVoice(voices, usableVoicesToStealArray, newNote,
                           shouldStealVoices) IN
    /\ r.voice # NoVoice => lastNoteOnCounter < MaxCounter
    /\ usableVoicesToStealArray' = r.array
    /\ numAllocated' = ensureStorageAllocated(numAllocated, Len(r.array))
    /\ IF r.voice # NoVoice
          THEN startVoice(r.voice, newNote)
          ELSE /\ hookLog' = <<>>
               /\ UNCHANGED <<currentlyPlayingNote, noteOnTime, lastNoteOnCounter>>
    /\ UNCHANGED concurrency
    /\ lastOp' = Op("noteAdded", newNote, r.voice, r.stole, r.asserts)
    /\ UNCHANGED <<voices, shouldStealVoices>>

\* The voices of a sequence that an event for a note reaches, in its order.
matching(order, note) == SelectSeq(order, LAMBDA v : isCurrentlyPlayingNote(v, note))

\* A pressure change that stops at the first voice playing the note:
\* ChangeReachesAll tells it from notePressureChanged.
notePressureChangedFirst(changedNote) ==
    LET all == matching(voices, changedNote)
        hit == IF all = <<>> THEN <<>> ELSE <<Head(all)>> IN
    /\ currentlyPlayingNote' =
           [v \in AllVoiceIds |-> IF v \in members(hit) THEN changedNote
                                  ELSE currentlyPlayingNote[v]]
    /\ hookLog' = [i \in 1..Len(hit) |->
                      Hook(hit[i], "notePressureChanged", changedNote, noteOnTime[hit[i]])]
    /\ UNCHANGED concurrency
    /\ lastOp' = NoSearch
    /\ UNCHANGED <<voices, noteOnTime, lastNoteOnCounter, shouldStealVoices,
                   usableVoicesToStealArray, numAllocated>>

\* MPESynthesiser::notePressureChanged: every voice playing the note gets the
\* new snapshot and then its notePressureChanged().
notePressureChanged(changedNote) ==
    LET hit == matching(voices, changedNote) IN
    /\ currentlyPlayingNote' =
           [v \in AllVoiceIds |-> IF v \in members(hit) THEN changedNote
                                  ELSE currentlyPlayingNote[v]]
    /\ hookLog' = [i \in 1..Len(hit) |->
                      Hook(hit[i], "notePressureChanged", changedNote, noteOnTime[hit[i]])]
    /\ UNCHANGED concurrency
    /\ lastOp' = NoSearch
    /\ UNCHANGED <<voices, noteOnTime, lastNoteOnCounter, shouldStealVoices,
                   usableVoicesToStealArray, numAllocated>>

\* MPESynthesiser::notePitchbendChanged: every voice playing the note gets the
\* new snapshot and then its notePitchbendChanged().
notePitchbendChanged(changedNote) ==
    LET hit == matching(voices, changedNote) IN
    /\ currentlyPlayingNote' =
           [v \in AllVoiceIds |-> IF v \in members(hit) THEN changedNote
                                  ELSE currentlyPlayingNote[v]]
    /\ hookLog' = [i \in 1..Len(hit) |->
                      Hook(hit[i], "notePitchbendChanged", changedNote, noteOnTime[hit[i]])]
    /\ UNCHANGED concurrency
    /\ lastOp' = NoSearch
    /\ UNCHANGED <<voices, noteOnTime, lastNoteOnCounter, shouldStealVoices,
                   usableVoicesToStealArray, numAllocated>>

\* MPESynthesiser::noteTimbreChanged: every voice playing the note gets the
\* new snapshot and then its noteTimbreChanged().
noteTimbreChanged(changedNote) ==
    LET hit == matching(voices, changedNote) IN
    /\ currentlyPlayingNote' =
           [v \in AllVoiceIds |-> IF v \in members(hit) THEN changedNote
                                  ELSE currentlyPlayingNote[v]]
    /\ hookLog' = [i \in 1..Len(hit) |->
                      Hook(hit[i], "noteTimbreChanged", changedNote, noteOnTime[hit[i]])]
    /\ UNCHANGED concurrency
    /\ lastOp' = NoSearch
    /\ UNCHANGED <<voices, noteOnTime, lastNoteOnCounter, shouldStealVoices,
                   usableVoicesToStealArray, numAllocated>>

\* MPESynthesiser::noteKeyStateChanged: every voice playing the note gets the
\* new snapshot and then its noteKeyStateChanged().
noteKeyStateChanged(changedNote) ==
    LET hit == matching(voices, changedNote) IN
    /\ currentlyPlayingNote' =
           [v \in AllVoiceIds |-> IF v \in members(hit) THEN changedNote
                                  ELSE currentlyPlayingNote[v]]
    /\ hookLog' = [i \in 1..Len(hit) |->
                      Hook(hit[i], "noteKeyStateChanged", changedNote, noteOnTime[hit[i]])]
    /\ UNCHANGED concurrency
    /\ lastOp' = NoSearch
    /\ UNCHANGED <<voices, noteOnTime, lastNoteOnCounter, shouldStealVoices,
                   usableVoicesToStealArray, numAllocated>>

\* voice->noteStopped (allowTailOff), as the log of callbacks names it.
noteStopped(allowTailOff) ==
    IF allowTailOff THEN "noteStopped (true)" ELSE "noteStopped (false)"

\* MPESynthesiser::stopVoice on each voice of a sequence: the note, then the
\* voice's noteStopped (allowTailOff).  The voices of silenced stop sounding
\* in that call (clearCurrentNote); with no tail-off allowed every voice does.
stopVoices(stopped, noteToStop, allowTailOff, silenced) ==
    /\ currentlyPlayingNote' =
           [v \in AllVoiceIds |->
               IF v \notin members(stopped) THEN currentlyPlayingNote[v]
               ELSE IF v \in silenced \/ ~allowTailOff THEN NoNote
               ELSE noteToStop]
    /\ hookLog' = [i \in 1..Len(stopped) |->
                      Hook(stopped[i], noteStopped(allowTailOff), noteToStop,
                           noteOnTime[stopped[i]])]

\* MPESynthesiser::noteReleased: the pool from its end to its start.
noteReleased(finishedNote, silenced) ==
    LET hit == matching(reversed(voices), finishedNote) IN
    /\ silenced \subseteq members(hit)
    /\ stopVoices(hit, finishedNote, TRUE, silenced)
    /\ UNCHANGED concurrency
    /\ lastOp' = NoSearch
    /\ UNCHANGED <<voices, noteOnTime, lastNoteOnCounter, shouldStealVoices,
                   usableVoicesToStealArray, numAllocated>>

\* MPEValue::from7BitInt (64), the note-off velocity of a forced stop.
ForcedVelocity == 64

\* The note of a voice as the first loop of turnOffAllVoices leaves it: the
\* two fields written in place, identity and dimensions as they were.
turnedOff(note) == [note EXCEPT !.noteOffVelocity = ForcedVelocity, !.keyState = "off"]

\* The note the instrument hands to noteReleased for a note it gives up in
\* releaseAllNotes.
releasedByInstrument(id) ==
    turnedOff(MPENote(id[1], id[2], "off"))

\* The notes the instrument can be tracking, as the sequences in which
\* releaseAllNotes gives them up.
TrackedNotes ==
    {<<>>} \cup {<<<<ch, n>>>> : ch \in Channels, n \in NoteNumbers}
           \cup {<<<<ch, 60>>, <<ch, 61>>>> : ch \in Channels}

\* The listener callbacks of instrument.releaseAllNotes(): one noteReleased
\* per tracked note, each stopping, from the end of the pool to its start,
\* the voices that still play that note.  st is the notes of the voices and
\* the log of callbacks so far.
RECURSIVE releaseAllNotes(_, _)
releaseAllNotes(tracked, st) ==
    IF tracked = <<>> THEN st
    ELSE LET finishedNote == releasedByInstrument(Head(tracked))
             hit == SelectSeq(reversed(voices),
                        LAMBDA v : /\ isValid(st.notes[v])
                                   /\ noteID(st.notes[v]) = noteID(finishedNote))
         IN  releaseAllNotes(Tail(tracked),
                 [notes |-> [v \in AllVoiceIds |->
                                IF v \in members(hit) THEN finishedNote ELSE st.notes[v]],
                  log   |-> st.log \o
                            [i \in 1..Len(hit) |->
                                Hook(hit[i], noteStopped(TRUE), finishedNote,
                                     noteOnTime[hit[i]])]])

\* An all-voices-off that passes over the idle voices and tells the
\* instrument first: AllOffStopsAll tells it from the real one.
allVoicesOffActiveOnly(allowTailOff, silenced, tracked) ==
    LET sounding == SelectSeq(voices, isActive) IN
    releaseAllNotes(tracked,
        [notes |-> [v \in AllVoiceIds |->
                       IF v \notin members(sounding) THEN currentlyPlayingNote[v]
                       ELSE IF v \in silenced \/ ~allowTailOff THEN NoNote
                       ELSE turnedOff(currentlyPlayingNote[v])],
         log   |-> <<Hook(NoVoice, "releaseAllNotes", NoNote, 0)>>
                   \o [i \in 1..Len(sounding) |->
                          Hook(sounding[i], noteStopped(allowTailOff),
                               turnedOff(currentlyPlayingNote[sounding[i]]),
                               noteOnTime[sounding[i]])]])

\* An all-voices-off whose voices keep their notes whatever they are told:
\* SilentTwiceWithoutTail tells it from the real one.
allVoicesOffKeepingNotes(allowTailOff, silenced, tracked) ==
    releaseAllNotes(tracked,
        [notes |-> [v \in AllVoiceIds |->
                       IF v \notin members(voices) THEN currentlyPlayingNote[v]
                       ELSE turnedOff(currentlyPlayingNote[v])],
         log   |-> [i \in 1..Len(voices) |->
                       Hook(voices[i], noteStopped(allowTailOff),
                            turnedOff(currentlyPlayingNote[voices[i]]),
                            noteOnTime[voices[i]])]
                   \o <<Hook(NoVoice, "releaseAllNotes", NoNote, 0)>>])

\* The body of MPESynthesiser::turnOffAllVoices: every voice of the pool, in
\* pool order, has keyState and noteOffVelocity of its note written and gets
\* noteStopped (allowTailOff); then, the lock given up, the instrument is
\* told to release all notes.  A voice of silenced, and every voice when no
\* tail-off is allowed, ends its sound in its noteStopped (clearCurrentNote).
\* The result is the notes of the voices and the log of callbacks.
allVoicesOff(allowTailOff, silenced, tracked) ==
    releaseAllNotes(tracked,
        [notes |-> [v \in AllVoiceIds |->
                       IF v \notin members(voices) THEN currentlyPlayingNote[v]
                       ELSE IF v \in silenced \/ ~allowTailOff THEN NoNote
                       ELSE turnedOff(currentlyPlayingNote[v])],
         log   |-> [i \in 1..Len(voices) |->
                       Hook(voices[i], noteStopped(allowTailOff),
                            turnedOff(currentlyPlayingNote[voices[i]]),
                            noteOnTime[voices[i]])]
                   \o <<Hook(NoVoice, "releaseAllNotes", NoNote, 0)>>])

\* What turnOffAllVoices leaves in lastOp: its argument, and whether the
\* handler before it was a turnOffAllVoices (false) too.
NoTailOnce == "turnOffAllVoices (false)"
NoTailTwice == "turnOffAllVoices (false) twice"
allOff(allowTailOff) ==
    Op(IF allowTailOff THEN "turnOffAllVoices (true)"
       ELSE IF lastOp.op \in {NoTailOnce, NoTailTwice} THEN NoTailTwice
       ELSE NoTailOnce,
       NoNote, NoVoice, FALSE, {})

\* MPESynthesiser::turnOffAllVoices.
turnOffAllVoices(allowTailOff, silenced, tracked) ==
    LET r == allVoicesOff(allowTailOff, silenced, tracked) IN
    /\ silenced \subseteq members(voices)
    /\ allowTailOff \/ silenced = {}
    /\ currentlyPlayingNote' = r.notes
    /\ hookLog' = r.log
    /\ UNCHANGED concurrency
    /\ lastOp' = allOff(allowTailOff)
    /\ UNCHANGED <<voices, noteOnTime, lastNoteOnCounter, shouldStealVoices,
                   usableVoicesToStealArray, numAllocated>>

\* MPESynthesiser::setCurrentPlaybackSampleRate: all voices off with no
\* tail-off, then the new rate to every voice, from the end of the pool to
\* its start.
setCurrentPlaybackSampleRate(tracked) ==
    LET r    == allVoicesOff(FALSE, {}, tracked)
        back == reversed(voices) IN
    /\ currentlyPlayingNote' = r.notes
    /\ hookLog' = r.log \o [i \in 1..Len(back) |->
                              Hook(back[i], "setCurrentSampleRate", r.notes[back[i]],
                                   noteOnTime[back[i]])]
    /\ UNCHANGED concurrency
    /\ lastOp' = NoSearch
    /\ UNCHANGED <<voices, noteOnTime, lastNoteOnCounter, shouldStealVoices,
                   usableVoicesToStealArray, numAllocated>>

\* A renderNextSubBlock that takes out of the pool the voices that end their
\* sound: PoolChangesByPoolOperations tells it from the real one.
renderNextSubBlockDropping(finished) ==
    LET active == SelectSeq(voices, isActive) IN
    /\ finished \subseteq members(active)
    /\ currentlyPlayingNote' =
           [v \in AllVoiceIds |-> IF v \in finished THEN NoNote
                                  ELSE currentlyPlayingNote[v]]
    /\ hookLog' = [i \in 1..Len(active) |-> Rendered(active[i])]
    /\ UNCHANGED concurrency
    /\ lastOp' = NoSearch
    /\ voices' = without(voices, finished)
    /\ UNCHANGED <<noteOnTime, lastNoteOnCounter, shouldStealVoices,
                   usableVoicesToStealArray, numAllocated>>

\* MPESynthesiser::renderNextSubBlock: every active voice renders, in pool
\* order; the voices of finished end their sound in that call.
renderNextSubBlock(finished) ==
    LET active == SelectSeq(voices, isActive) IN
    /\ finished \subseteq members(active)
    /\ currentlyPlayingNote' =
           [v \in AllVoiceIds |-> IF v \in finished THEN NoNote
                                  ELSE currentlyPlayingNote[v]]
    /\ hookLog' = [i \in 1..Len(active) |-> Rendered(active[i])]
    /\ UNCHANGED concurrency
    /\ lastOp' = NoSearch
    /\ UNCHANGED <<voices, noteOnTime, lastNoteOnCounter, shouldStealVoices,
                   usableVoicesToStealArray, numAllocated>>

\* The fields of deleted voices, which are those of a voice just constructed.
deleted(f, gone, fresh) == [v \in AllVoiceIds |-> IF v \in gone THEN fresh ELSE f[v]]

\* The pool's voices in gone leave the pool and are deleted (OwnedArray).
deleteVoices(gone) ==
    /\ voices' = without(voices, gone)
    /\ currentlyPlayingNote' = deleted(currentlyPlayingNote, gone, NoNote)
    /\ noteOnTime' = deleted(noteOnTime, gone, 0)

\* MPESynthesiser::addVoice: a voice just constructed goes to the end of the
\* pool, and the scratch array gets storage for the pool and one more.
addVoice(newVoice) ==
    /\ Len(voices) < MaxVoices
    /\ newVoice = minIndex(VoiceIds \ members(voices))
    /\ voices' = Append(voices, newVoice)
    /\ numAllocated' = ensureStorageAllocated(numAllocated, Len(voices') + 1)
    /\ hookLog' = <<>>
    /\ UNCHANGED concurrency
    /\ lastOp' = NoSearch
    /\ UNCHANGED <<currentlyPlayingNote, noteOnTime, lastNoteOnCounter,
                   shouldStealVoices, usableVoicesToStealArray>>

\* A clearVoices that starts the counter again with the pool:
\* CounterCountsStarts tells it from the real one.
clearVoicesResetting ==
    /\ deleteVoices(members(voices))
    /\ hookLog' = <<>>
    /\ UNCHANGED concurrency
    /\ lastOp' = NoSearch
    /\ lastNoteOnCounter' = 0
    /\ UNCHANGED <<shouldStealVoices, usableVoicesToStealArray, numAllocated>>

\* MPESynthesiser::clearVoices.
clearVoices ==
    /\ deleteVoices(members(voices))
    /\ hookLog' = <<>>
    /\ UNCHANGED concurrency
    /\ lastOp' = NoSearch
    /\ UNCHANGED <<lastNoteOnCounter, shouldStealVoices, usableVoicesToStealArray, numAllocated>>

\* A removeVoice that stops the voice before it takes it out:
\* RemoveTakesOutAtOnce tells it from the real one.
removeVoiceStopping(index) ==
    LET gone == voices[index + 1] IN
    /\ index < Len(voices)
    /\ deleteVoices({gone})
    /\ hookLog' = IF isActive(gone)
                     THEN <<Hook(gone, noteStopped(FALSE), currentlyPlayingNote[gone],
                                 noteOnTime[gone])>>
                     ELSE <<>>
    /\ UNCHANGED concurrency
    /\ lastOp' = NoSearch
    /\ UNCHANGED <<lastNoteOnCounter, shouldStealVoices, usableVoicesToStealArray, numAllocated>>

\* MPESynthesiser::removeVoice, with an index of the pool (from 0).
removeVoice(index) ==
    /\ index < Len(voices)
    /\ deleteVoices({voices[index + 1]})
    /\ hookLog' = <<>>
    /\ UNCHANGED concurrency
    /\ lastOp' = NoSearch
    /\ UNCHANGED <<lastNoteOnCounter, shouldStealVoices, usableVoicesToStealArray, numAllocated>>

\* The loop of reduceNumVoices: one voice leaves the pool per round, the one
\* findFreeVoice ({}, true) names, or the first of the pool when it names none.
RECURSIVE reduceLoop(_, _, _)
reduceLoop(pool, newNumVoices, st) ==
    IF Len(pool) <= newNumVoices THEN [st EXCEPT !.pool = pool]
    ELSE LET r    == findFreeVoice(pool, st.array, NoNote, TRUE)
             gone == IF r.voice # NoVoice THEN r.voice ELSE pool[1]
         IN  reduceLoop(without(pool, {gone}), newNumVoices,
                 [pool    |-> pool,
                  array   |-> r.array,
                  stole   |-> st.stole \/ r.stole,
                  asserts |-> st.asserts \cup r.asserts])

\* MPESynthesiser::reduceNumVoices.
reduceNumVoices(newNumVoices) ==
    LET r == reduceLoop(voices, newNumVoices,
                 [pool |-> voices, array |-> usableVoicesToStealArray,
                  stole |-> FALSE, asserts |-> {}]) IN
    /\ deleteVoices(members(voices) \ members(r.pool))
    /\ usableVoicesToStealArray' = r.array
    /\ numAllocated' = ensureStorageAllocated(numAllocated, Len(r.array))
    /\ hookLog' = <<>>
    /\ UNCHANGED concurrency
    /\ lastOp' = Op("reduceNumVoices", NoNote, NoVoice, r.stole, r.asserts)
    /\ UNCHANGED <<lastNoteOnCounter, shouldStealVoices>>

\* MPESynthesiser::setVoiceStealingEnabled.
setVoiceStealingEnabled(shouldSteal) ==
    /\ shouldStealVoices' = shouldSteal
    /\ hookLog' = <<>>
    /\ UNCHANGED concurrency
    /\ lastOp' = NoSearch
    /\ UNCHANGED <<voices, currentlyPlayingNote, noteOnTime, lastNoteOnCounter,
                   usableVoicesToStealArray, numAllocated>>

\* ------------------------------------------------------- the engine
\* The engine as constructed: no voices, stealing off, the counter at 0.
Init ==
    /\ voices = <<>>
    /\ currentlyPlayingNote = [v \in AllVoiceIds |-> NoNote]
    /\ noteOnTime = [v \in AllVoiceIds |-> 0]
    /\ lastNoteOnCounter = 0
    /\ shouldStealVoices = FALSE
    /\ usableVoicesToStealArray = <<>>
    /\ numAllocated = 0
    /\ hookLog = <<>>
    /\ lastOp = NoSearch
    /\ quiet

Next ==
    \/ \E v \in VoiceIds : addVoice(v)
    \/ \E i \in 0..(MaxVoices - 1) : removeVoice(i)
    \/ clearVoices
    \/ \E n \in 0..(MaxVoices - 1) : reduceNumVoices(n)
    \/ \E b \in BOOLEAN : setVoiceStealingEnabled(b)
    \/ \E n \in StartNotes : noteAdded(n)
    \/ \E n \in ChangeNotes : noteKeyStateChanged(n)
    \/ \E n \in ReleaseNotes, s \in SUBSET VoiceIds : noteReleased(n, s)
    \/ \E s \in SUBSET VoiceIds : renderNextSubBlock(s)

Spec == Init /\ [][Next]_vars

\* ------------------------------------------------------- threads and locks
\* A CriticalSection that lets every thread in: the properties of SpecLocks
\* that rest on mutual exclusion tell it from the real one.
canEnterAnyway(t, lock) == TRUE

\* CriticalSection::enter can return: the lock is free or the thread's own.
canEnter(t, lock) == locks[lock].owner \in {NoOwner, t}

\* The locks after CriticalSection::enter by t.
entered(t, lock) == [locks EXCEPT ![lock] = [owner |-> t, depth |-> @.depth + 1]]

\* A CriticalSection::exit that frees the lock whatever the number of times
\* its owner has entered it: ReentrantForOwner tells it from the real one.
exitedAtOnce(t, lock) == [locks EXCEPT ![lock] = Unlocked]

\* The locks after CriticalSection::exit by t.
exited(t, lock) ==
    [locks EXCEPT ![lock] = IF @.depth = 1 THEN Unlocked
                            ELSE [owner |-> t, depth |-> @.depth - 1]]

\* t is inside the lock.
holds(t, lock) == locks[lock].owner = t

\* The record of unlocked accesses after t, at a line, has read or written
\* the pool or a field of a voice.
touched(t, line) == IF holds(t, "voicesLock") THEN races ELSE races \cup {line}

\* t is at a line.
at(t, line) == threads[t].pc = line

\* t moves on: the fields of its record that change.
goes(t, next) == threads' = [threads EXCEPT ![t] = next]

\* A call returns: the thread keeps the record of the call.
returns(t) == goes(t, [threads[t] EXCEPT !.pc = "returned"])

\* What a step of a thread leaves alone unless it says otherwise.
poolAlone == UNCHANGED <<voices, noteOnTime, lastNoteOnCounter, shouldStealVoices,
                         usableVoicesToStealArray, numAllocated, hookLog, lastOp>>

\* ---- noteReleased, line by line
\* 136: const ScopedLock sl (voicesLock);  and 138: i = voices.size().
noteReleased136(t) ==
    /\ at(t, "noteReleased:136")
    /\ canEnter(t, "voicesLock")
    /\ locks' = entered(t, "voicesLock")
    /\ goes(t, [threads[t] EXCEPT !.pc = "noteReleased:138", !.i = Len(voices),
                                  !.hits = matching(reversed(voices), threads[t].note)])
    /\ UNCHANGED <<currentlyPlayingNote, races>>
    /\ poolAlone

\* 138-143: --i >= 0; voice = voices.getUnchecked (i); if it plays the note,
\* stopVoice writes the note (65) and calls noteStopped (66).
noteReleased138(t) ==
    LET me == threads[t]
        voice == voices[me.i] IN
    /\ at(t, "noteReleased:138")
    /\ races' = touched(t, "noteReleased:138")
    /\ IF me.i = 0 \/ me.i > Len(voices)
          THEN /\ goes(t, [me EXCEPT !.pc = "noteReleased:145"])
               /\ UNCHANGED currentlyPlayingNote
          ELSE IF isCurrentlyPlayingNote(voice, me.note)
                  THEN /\ currentlyPlayingNote' =
                              [currentlyPlayingNote EXCEPT ![voice] = me.note]
                       /\ goes(t, [me EXCEPT !.pc = "stopVoice:66", !.i = @ - 1,
                                             !.voice = voice])
                  ELSE /\ goes(t, [me EXCEPT !.i = @ - 1])
                       /\ UNCHANGED currentlyPlayingNote
    /\ UNCHANGED locks
    /\ poolAlone

\* 66: voice->noteStopped (true) returns; the voice has kept its tail or has
\* ended its sound (clearCurrentNote).
stopVoice66(t, ended) ==
    LET me == threads[t] IN
    /\ at(t, "stopVoice:66")
    /\ currentlyPlayingNote' =
           IF ended THEN [currentlyPlayingNote EXCEPT ![me.voice] = NoNote]
           ELSE currentlyPlayingNote
    /\ goes(t, [me EXCEPT !.pc = "noteReleased:138", !.log = Append(@, me.voice)])
    /\ UNCHANGED <<locks, races>>
    /\ poolAlone

\* 145: the lock is given up and the call returns.
noteReleased145(t) ==
    /\ at(t, "noteReleased:145")
    /\ locks' = exited(t, "voicesLock")
    /\ returns(t)
    /\ UNCHANGED <<currentlyPlayingNote, races>>
    /\ poolAlone

\* ---- renderNextSubBlock, line by line
\* A render that does not wait for voicesLock: RenderNeverMidUpdate tells it
\* from the real one.
render344Barging(t) ==
    /\ at(t, "render:344")
    /\ locks' = entered(t, "voicesLock")
    /\ goes(t, [threads[t] EXCEPT !.pc = "render:346", !.i = 0])
    /\ UNCHANGED <<currentlyPlayingNote, races>>
    /\ poolAlone

\* 344: const ScopedLock sl (voicesLock);
render344(t) ==
    /\ at(t, "render:344")
    /\ canEnter(t, "voicesLock")
    /\ locks' = entered(t, "voicesLock")
    /\ goes(t, [threads[t] EXCEPT !.pc = "render:346", !.i = 0])
    /\ UNCHANGED <<currentlyPlayingNote, races>>
    /\ poolAlone

\* A scan that calls renderNextBlock on every voice of the pool, active or
\* not: RenderActiveInOrder tells it from the real one.
render346All(t) ==
    LET me == threads[t]
        voice == voices[me.i + 1] IN
    /\ at(t, "render:346")
    /\ races' = touched(t, "render:346")
    /\ IF me.i >= Len(voices)
          THEN goes(t, [me EXCEPT !.pc = "render:351"])
          ELSE goes(t, [me EXCEPT !.pc = "render:349", !.i = @ + 1, !.voice = voice])
    /\ UNCHANGED <<currentlyPlayingNote, locks>>
    /\ poolAlone

\* 346-349: the next voice of the pool; if it is active, renderNextBlock is
\* called on it.
render346(t) ==
    LET me == threads[t]
        voice == voices[me.i + 1] IN
    /\ at(t, "render:346")
    /\ races' = touched(t, "render:346")
    /\ IF me.i >= Len(voices)
          THEN goes(t, [me EXCEPT !.pc = "render:351"])
          ELSE IF isActive(voice)
                  THEN goes(t, [me EXCEPT !.pc = "render:349", !.i = @ + 1, !.voice = voice])
                  ELSE goes(t, [me EXCEPT !.i = @ + 1])
    /\ UNCHANGED <<currentlyPlayingNote, locks>>
    /\ poolAlone

\* 349: voice->renderNextBlock returns; the voice has gone on or has ended
\* its sound.
render349(t, ended) ==
    LET me == threads[t] IN
    /\ at(t, "render:349")
    /\ currentlyPlayingNote' =
           IF ended THEN [currentlyPlayingNote EXCEPT ![me.voice] = NoNote]
           ELSE currentlyPlayingNote
    /\ goes(t, [me EXCEPT !.pc = "render:346", !.log = Append(@, me.voice)])
    /\ UNCHANGED <<locks, races>>
    /\ poolAlone

\* 351: the lock is given up and the call returns.
render351(t) ==
    /\ at(t, "render:351")
    /\ locks' = exited(t, "voicesLock")
    /\ returns(t)
    /\ UNCHANGED <<currentlyPlayingNote, races>>
    /\ poolAlone

\* ---- findFreeVoice and findVoiceToSteal, line by line
\* 171: const ScopedLock sl (voicesLock);  the caller is inside it already.
findFreeVoice171(t) ==
    /\ at(t, "findFreeVoice:171")
    /\ canEnter(t, "voicesLock")
    /\ locks' = entered(t, "voicesLock")
    /\ goes(t, [threads[t] EXCEPT !.pc = "findFreeVoice:173"])
    /\ UNCHANGED <<currentlyPlayingNote, races>>
    /\ poolAlone

\* A findFreeVoice that gives up the scan at the first voice when that one is
\* active: ScanFindsAllActive tells it from the real one.
findFreeVoice173Hasty(t) ==
    LET me    == threads[t]
        idle  == IF voices # <<>> /\ isActive(voices[1]) THEN NoVoice
                 ELSE firstIdle(voices, 1)
        steal == IF me.op = "noteAdded" THEN shouldStealVoices ELSE TRUE IN
    /\ at(t, "findFreeVoice:173")
    /\ races' = touched(t, "findFreeVoice:173")
    /\ IF idle # NoVoice \/ ~steal
          THEN goes(t, [me EXCEPT !.pc = "findFreeVoice:183", !.found = idle])
          ELSE goes(t, [me EXCEPT !.pc = "findVoiceToSteal:202"])
    /\ UNCHANGED <<currentlyPlayingNote, locks>>
    /\ poolAlone

\* 173-182: the scan for an idle voice; with none, on to findVoiceToSteal
\* when stealing is allowed (shouldStealVoices from noteAdded, true from
\* reduceNumVoices), else nullptr.
findFreeVoice173(t) ==
    LET me    == threads[t]
        idle  == firstIdle(voices, 1)
        steal == IF me.op = "noteAdded" THEN shouldStealVoices ELSE TRUE IN
    /\ at(t, "findFreeVoice:173")
    /\ races' = touched(t, "findFreeVoice:173")
    /\ IF idle # NoVoice \/ ~steal
          THEN goes(t, [me EXCEPT !.pc = "findFreeVoice:183", !.found = idle])
          ELSE goes(t, [me EXCEPT !.pc = "findVoiceToSteal:202"])
    /\ UNCHANGED <<currentlyPlayingNote, locks>>
    /\ poolAlone

\* 202: const ScopedLock sl (stealLock);
findVoiceToSteal202(t) ==
    /\ at(t, "findVoiceToSteal:202")
    /\ canEnter(t, "stealLock")
    /\ locks' = entered(t, "stealLock")
    /\ goes(t, [threads[t] EXCEPT !.pc = "findVoiceToSteal:205"])
    /\ UNCHANGED <<currentlyPlayingNote, races>>
    /\ poolAlone

\* 205-269: the scratch array is cleared and filled, and a voice is chosen.
findVoiceToSteal205(t) ==
    LET me == threads[t]
        r  == findVoiceToSteal(voices, usableVoicesToStealArray, me.note) IN
    /\ at(t, "findVoiceToSteal:205")
    /\ races' = touched(t, "findVoiceToSteal:205")
    /\ usableVoicesToStealArray' = r.array
    /\ numAllocated' = ensureStorageAllocated(numAllocated, Len(r.array))
    /\ goes(t, [me EXCEPT !.pc = "findVoiceToSteal:270", !.found = r.voice])
    /\ UNCHANGED <<voices, currentlyPlayingNote, noteOnTime, lastNoteOnCounter,
                   shouldStealVoices, hookLog, lastOp, locks>>

\* 270: stealLock is given up.
findVoiceToSteal270(t) ==
    /\ at(t, "findVoiceToSteal:270")
    /\ locks' = exited(t, "stealLock")
    /\ goes(t, [threads[t] EXCEPT !.pc = "findFreeVoice:183"])
    /\ UNCHANGED <<currentlyPlayingNote, races>>
    /\ poolAlone

\* 183: findFreeVoice gives up its hold of voicesLock and returns to its caller.
findFreeVoice183(t) ==
    /\ at(t, "findFreeVoice:183")
    /\ locks' = exited(t, "voicesLock")
    /\ goes(t, [threads[t] EXCEPT !.pc = threads[t].ret])
    /\ UNCHANGED <<currentlyPlayingNote, races>>
    /\ poolAlone

\* ---- noteAdded, line by line
\* 72: const ScopedLock sl (voicesLock);  then the call of findFreeVoice (74).
noteAdded72(t) ==
    /\ at(t, "noteAdded:72")
    /\ canEnter(t, "voicesLock")
    /\ locks' = entered(t, "voicesLock")
    /\ goes(t, [threads[t] EXCEPT !.pc = "findFreeVoice:171", !.ret = "noteAdded:74"])
    /\ UNCHANGED <<currentlyPlayingNote, races>>
    /\ poolAlone

\* A noteAdded that stamps the voice and leaves the counter where it was:
\* StartsUnderLock tells it from the real one.
noteAdded74Stale(t) ==
    LET me == threads[t] IN
    /\ at(t, "noteAdded:74")
    /\ IF me.found # NoVoice
          THEN /\ races' = touched(t, "startVoice:56")
               /\ currentlyPlayingNote' =
                      [currentlyPlayingNote EXCEPT ![me.found] = me.note]
               /\ noteOnTime' = [noteOnTime EXCEPT ![me.found] = lastNoteOnCounter]
               /\ lastNoteOnCounter' = lastNoteOnCounter
               /\ goes(t, [me EXCEPT !.pc = "startVoice:58", !.voice = me.found])
          ELSE /\ goes(t, [me EXCEPT !.pc = "noteAdded:76"])
               /\ UNCHANGED <<currentlyPlayingNote, noteOnTime, lastNoteOnCounter, races>>
    /\ UNCHANGED <<voices, shouldStealVoices, usableVoicesToStealArray, numAllocated, hookLog,
                   lastOp, locks>>

\* A noteAdded whose startVoice writes the note and leaves the voice the
\* noteOnTime it had: StolenVoiceRestarted tells it from the real one.
noteAdded74Unstamped(t) ==
    LET me == threads[t] IN
    /\ at(t, "noteAdded:74")
    /\ IF me.found # NoVoice
          THEN /\ races' = touched(t, "startVoice:56")
               /\ currentlyPlayingNote' =
                      [currentlyPlayingNote EXCEPT ![me.found] = me.note]
               /\ noteOnTime' = noteOnTime
               /\ lastNoteOnCounter' = lastNoteOnCounter + 1
               /\ goes(t, [me EXCEPT !.pc = "startVoice:58", !.voice = me.found])
          ELSE /\ goes(t, [me EXCEPT !.pc = "noteAdded:76"])
               /\ UNCHANGED <<currentlyPlayingNote, noteOnTime, lastNoteOnCounter, races>>
    /\ UNCHANGED <<voices, shouldStealVoices, usableVoicesToStealArray, numAllocated, hookLog,
                   lastOp, locks>>

\* 74-75: with a voice, startVoice writes the note and the stamp (56-57) and
\* calls noteStarted (58); with none, the end.
noteAdded74(t) ==
    LET me == threads[t] IN
    /\ at(t, "noteAdded:74")
    /\ IF me.found # NoVoice
          THEN /\ races' = touched(t, "startVoice:56")
               /\ currentlyPlayingNote' =
                      [currentlyPlayingNote EXCEPT ![me.found] = me.note]
               /\ noteOnTime' = [noteOnTime EXCEPT ![me.found] = lastNoteOnCounter]
               /\ lastNoteOnCounter' = lastNoteOnCounter + 1
               /\ goes(t, [me EXCEPT !.pc = "startVoice:58", !.voice = me.found])
          ELSE /\ goes(t, [me EXCEPT !.pc = "noteAdded:76"])
               /\ UNCHANGED <<currentlyPlayingNote, noteOnTime, lastNoteOnCounter, races>>
    /\ UNCHANGED <<voices, shouldStealVoices, usableVoicesToStealArray, numAllocated, hookLog,
                   lastOp, locks>>

\* 58: voice->noteStarted() returns.
startVoice58(t) ==
    LET me == threads[t] IN
    /\ at(t, "startVoice:58")
    /\ goes(t, [me EXCEPT !.pc = "noteAdded:76", !.log = Append(@, me.voice)])
    /\ UNCHANGED <<currentlyPlayingNote, locks, races>>
    /\ poolAlone

\* A noteAdded that returns inside voicesLock: EveryCallReturns tells it
\* from the real one.
noteAdded76Keeping(t) ==
    /\ at(t, "noteAdded:76")
    /\ returns(t)
    /\ UNCHANGED <<currentlyPlayingNote, locks, races>>
    /\ poolAlone

\* 76: the lock is given up and the call returns.
noteAdded76(t) ==
    /\ at(t, "noteAdded:76")
    /\ locks' = exited(t, "voicesLock")
    /\ returns(t)
    /\ UNCHANGED <<currentlyPlayingNote, races>>
    /\ poolAlone

\* ---- notePressureChanged, line by line (notePitchbendChanged,
\* noteTimbreChanged and noteKeyStateChanged have the same lines)
\* 80: const ScopedLock sl (voicesLock);
notePressureChanged80(t) ==
    /\ at(t, "notePressureChanged:80")
    /\ canEnter(t, "voicesLock")
    /\ locks' = entered(t, "voicesLock")
    /\ goes(t, [threads[t] EXCEPT !.pc = "notePressureChanged:82", !.i = 0])
    /\ UNCHANGED <<currentlyPlayingNote, races>>
    /\ poolAlone

\* 82-86: the next voice of the pool; if it plays the note, the note is
\* written to it and notePressureChanged() is called.
notePressureChanged82(t) ==
    LET me == threads[t]
        voice == voices[me.i + 1] IN
    /\ at(t, "notePressureChanged:82")
    /\ races' = touched(t, "notePressureChanged:82")
    /\ IF me.i >= Len(voices)
          THEN /\ goes(t, [me EXCEPT !.pc = "notePressureChanged:90"])
               /\ UNCHANGED currentlyPlayingNote
          ELSE IF isCurrentlyPlayingNote(voice, me.note)
                  THEN /\ currentlyPlayingNote' =
                              [currentlyPlayingNote EXCEPT ![voice] = me.note]
                       /\ goes(t, [me EXCEPT !.pc = "notePressureChanged:87",
                                             !.i = @ + 1, !.voice = voice])
                  ELSE /\ goes(t, [me EXCEPT !.i = @ + 1])
                       /\ UNCHANGED currentlyPlayingNote
    /\ UNCHANGED locks
    /\ poolAlone

\* 87: voice->notePressureChanged() returns.
notePressureChanged87(t) ==
    LET me == threads[t] IN
    /\ at(t, "notePressureChanged:87")
    /\ goes(t, [me EXCEPT !.pc = "notePressureChanged:82", !.log = Append(@, me.voice)])
    /\ UNCHANGED <<currentlyPlayingNote, locks, races>>
    /\ poolAlone

\* 90: the lock is given up and the call returns.
notePressureChanged90(t) ==
    /\ at(t, "notePressureChanged:90")
    /\ locks' = exited(t, "voicesLock")
    /\ returns(t)
    /\ UNCHANGED <<currentlyPlayingNote, races>>
    /\ poolAlone

\* ---- setCurrentPlaybackSampleRate and turnOffAllVoices, line by line
\* A setCurrentPlaybackSampleRate that gives the voices the rate without
\* turning them off: SilenceThenRate tells it from the real one.
setRate151Sounding(t) ==
    /\ at(t, "setRate:151")
    /\ canEnter(t, "voicesLock")
    /\ locks' = entered(t, "voicesLock")
    /\ goes(t, [threads[t] EXCEPT !.pc = "setRate:155", !.i = Len(voices)])
    /\ UNCHANGED <<currentlyPlayingNote, races>>
    /\ poolAlone

\* 151: const ScopedLock sl (voicesLock);  then the call of turnOffAllVoices
\* (false) (153).
setRate151(t) ==
    /\ at(t, "setRate:151")
    /\ canEnter(t, "voicesLock")
    /\ locks' = entered(t, "voicesLock")
    /\ goes(t, [threads[t] EXCEPT !.pc = "turnOffAllVoices:324", !.ret = "setRate:155"])
    /\ UNCHANGED <<currentlyPlayingNote, races>>
    /\ poolAlone

\* 324: const ScopedLock sl (voicesLock);  the caller is inside it already.
turnOffAllVoices324(t) ==
    /\ at(t, "turnOffAllVoices:324")
    /\ canEnter(t, "voicesLock")
    /\ locks' = entered(t, "voicesLock")
    /\ goes(t, [threads[t] EXCEPT !.pc = "turnOffAllVoices:328", !.i = 0])
    /\ UNCHANGED <<currentlyPlayingNote, races>>
    /\ poolAlone

\* 328-333: the next voice of the pool: noteOffVelocity and keyState of its
\* note are written and noteStopped (false) is called.
turnOffAllVoices328(t) ==
    LET me == threads[t]
        voice == voices[me.i + 1] IN
    /\ at(t, "turnOffAllVoices:328")
    /\ races' = touched(t, "turnOffAllVoices:328")
    /\ IF me.i >= Len(voices)
          THEN /\ goes(t, [me EXCEPT !.pc = "turnOffAllVoices:335"])
               /\ UNCHANGED currentlyPlayingNote
          ELSE /\ currentlyPlayingNote' =
                      [currentlyPlayingNote EXCEPT ![voice] = turnedOff(@)]
               /\ goes(t, [me EXCEPT !.pc = "turnOffAllVoices:333", !.i = @ + 1,
                                     !.voice = voice])
    /\ UNCHANGED locks
    /\ poolAlone

\* 333: voice->noteStopped (allowTailOff) returns: the voice has ended its
\* sound (clearCurrentNote), as it must with no tail-off allowed, or it
\* sounds on in its tail.
turnOffAllVoices333(t, ended) ==
    LET me == threads[t] IN
    /\ at(t, "turnOffAllVoices:333")
    /\ currentlyPlayingNote' =
           IF ended \/ ~me.allowTailOff
               THEN [currentlyPlayingNote EXCEPT ![me.voice] = NoNote]
               ELSE currentlyPlayingNote
    /\ goes(t, [me EXCEPT !.pc = "turnOffAllVoices:328", !.log = Append(@, me.voice)])
    /\ UNCHANGED <<locks, races>>
    /\ poolAlone

\* 335: the end of the block: turnOffAllVoices gives up its hold of voicesLock.
turnOffAllVoices335(t) ==
    /\ at(t, "turnOffAllVoices:335")
    /\ locks' = exited(t, "voicesLock")
    /\ goes(t, [threads[t] EXCEPT !.pc = "turnOffAllVoices:338"])
    /\ UNCHANGED <<currentlyPlayingNote, races>>
    /\ poolAlone

\* 338: instrument.releaseAllNotes() returns: the instrument has called
\* noteReleased, on this thread, for every note it was tracking; each of
\* these calls goes through voicesLock (line 136).
turnOffAllVoices338(t, tracked) ==
    LET me == threads[t]
        r  == releaseAllNotes(tracked, [notes |-> currentlyPlayingNote, log |-> <<>>]) IN
    /\ at(t, "turnOffAllVoices:338")
    /\ tracked # <<>> => canEnter(t, "voicesLock")
    /\ currentlyPlayingNote' = r.notes
    /\ goes(t, [me EXCEPT !.pc = me.ret, !.i = Len(voices)])
    /\ UNCHANGED <<locks, races>>
    /\ poolAlone

\* 155-156: --i >= 0; voices.getUnchecked (i)->setCurrentSampleRate (newRate)
\* is called.
setRate155(t) ==
    LET me == threads[t] IN
    /\ at(t, "setRate:155")
    /\ races' = touched(t, "setRate:155")
    /\ IF me.i = 0 \/ me.i > Len(voices)
          THEN goes(t, [me EXCEPT !.pc = "setRate:157"])
          ELSE goes(t, [me EXCEPT !.pc = "setRate:156", !.i = @ - 1,
                                  !.voice = voices[me.i]])
    /\ UNCHANGED <<currentlyPlayingNote, locks>>
    /\ poolAlone

\* 156: setCurrentSampleRate (newRate) returns.
setRate156(t) ==
    LET me == threads[t] IN
    /\ at(t, "setRate:156")
    /\ goes(t, [me EXCEPT !.pc = "setRate:155", !.rates = Append(@, me.voice)])
    /\ UNCHANGED <<currentlyPlayingNote, locks, races>>
    /\ poolAlone

\* 157: the lock is given up and the call returns.
setRate157(t) ==
    /\ at(t, "setRate:157")
    /\ locks' = exited(t, "voicesLock")
    /\ returns(t)
    /\ UNCHANGED <<currentlyPlayingNote, races>>
    /\ poolAlone

\* ---- reduceNumVoices, line by line
\* 310: const ScopedLock sl (voicesLock);
reduceNumVoices310(t) ==
    /\ at(t, "reduceNumVoices:310")
    /\ canEnter(t, "voicesLock")
    /\ locks' = entered(t, "voicesLock")
    /\ goes(t, [threads[t] EXCEPT !.pc = "reduceNumVoices:312"])
    /\ UNCHANGED <<currentlyPlayingNote, races>>
    /\ poolAlone

\* A reduceNumVoices whose loop is an if: it takes out one voice at most.
\* ReduceToSize tells it from the real one.
reduceNumVoices312Once(t) ==
    LET me == threads[t] IN
    /\ at(t, "reduceNumVoices:312")
    /\ races' = touched(t, "reduceNumVoices:312")
    /\ IF Len(voices) > me.n /\ me.log = <<>>
          THEN goes(t, [me EXCEPT !.pc = "findFreeVoice:171", !.ret = "reduceNumVoices:314"])
          ELSE goes(t, [me EXCEPT !.pc = "reduceNumVoices:319"])
    /\ UNCHANGED <<currentlyPlayingNote, locks>>
    /\ poolAlone

\* 312-314: while (voices.size() > newNumVoices), findFreeVoice ({}, true).
reduceNumVoices312(t) ==
    LET me == threads[t] IN
    /\ at(t, "reduceNumVoices:312")
    /\ races' = touched(t, "reduceNumVoices:312")
    /\ IF Len(voices) > me.n
          THEN goes(t, [me EXCEPT !.pc = "findFreeVoice:171", !.ret = "reduceNumVoices:314"])
          ELSE goes(t, [me EXCEPT !.pc = "reduceNumVoices:319"])
    /\ UNCHANGED <<currentlyPlayingNote, locks>>
    /\ poolAlone

\* A reduceNumVoices that drops the first voice of the pool whatever
\* findFreeVoice found: ReduceIdleFirst tells it from the real one.
reduceNumVoices314First(t) ==
    LET me   == threads[t]
        gone == voices[1] IN
    /\ at(t, "reduceNumVoices:314")
    /\ races' = touched(t, "reduceNumVoices:315")
    /\ deleteVoices({gone})
    /\ goes(t, [me EXCEPT !.pc = "reduceNumVoices:312", !.log = Append(@, gone)])
    /\ UNCHANGED <<lastNoteOnCounter, shouldStealVoices, usableVoicesToStealArray, numAllocated,
                   hookLog, lastOp, locks>>

\* 314-317: the voice found, or with none the first of the pool, is removed
\* from the pool and deleted.
reduceNumVoices314(t) ==
    LET me   == threads[t]
        gone == IF me.found # NoVoice THEN me.found ELSE voices[1] IN
    /\ at(t, "reduceNumVoices:314")
    /\ races' = touched(t, "reduceNumVoices:315")
    /\ deleteVoices({gone})
    /\ goes(t, [me EXCEPT !.pc = "reduceNumVoices:312", !.log = Append(@, gone)])
    /\ UNCHANGED <<lastNoteOnCounter, shouldStealVoices, usableVoicesToStealArray, numAllocated,
                   hookLog, lastOp, locks>>

\* 319: the lock is given up and the call returns.
reduceNumVoices319(t) ==
    /\ at(t, "reduceNumVoices:319")
    /\ locks' = exited(t, "voicesLock")
    /\ returns(t)
    /\ UNCHANGED <<currentlyPlayingNote, races>>
    /\ poolAlone

\* ---- addVoice, line by line
\* 276: const ScopedLock sl (voicesLock);
addVoice276(t) ==
    /\ at(t, "addVoice:276")
    /\ canEnter(t, "voicesLock")
    /\ locks' = entered(t, "voicesLock")
    /\ goes(t, [threads[t] EXCEPT !.pc = "addVoice:277"])
    /\ UNCHANGED <<currentlyPlayingNote, races>>
    /\ poolAlone

\* 277-279: the voice gets the sample rate and goes to the end of the pool;
\* the lock is given up at the end of the block.
addVoice278(t) ==
    LET me == threads[t] IN
    /\ at(t, "addVoice:277")
    /\ races' = touched(t, "addVoice:278")
    /\ voices' = Append(voices, me.voice)
    /\ locks' = exited(t, "voicesLock")
    /\ goes(t, [me EXCEPT !.pc = "addVoice:282"])
    /\ UNCHANGED <<currentlyPlayingNote, noteOnTime, lastNoteOnCounter,
                   shouldStealVoices, usableVoicesToStealArray, numAllocated, hookLog, lastOp>>

\* 282: const ScopedLock sl (stealLock);
addVoice282(t) ==
    /\ at(t, "addVoice:282")
    /\ canEnter(t, "stealLock")
    /\ locks' = entered(t, "stealLock")
    /\ goes(t, [threads[t] EXCEPT !.pc = "addVoice:283"])
    /\ UNCHANGED <<currentlyPlayingNote, races>>
    /\ poolAlone

\* An addVoice that, inside stealLock, goes for voicesLock to look at the
\* pool: LockOrder tells it from the real one.
addVoice283Locking(t) ==
    /\ at(t, "addVoice:283")
    /\ goes(t, [threads[t] EXCEPT !.pc = "findFreeVoice:171", !.ret = "addVoice:284"])
    /\ UNCHANGED <<currentlyPlayingNote, locks, races>>
    /\ poolAlone

\* 283: usableVoicesToStealArray.ensureStorageAllocated (voices.size() + 1):
\* the size of the pool is read.
addVoice283(t) ==
    /\ at(t, "addVoice:283")
    /\ races' = touched(t, "addVoice:283")
    /\ numAllocated' = ensureStorageAllocated(numAllocated, Len(voices) + 1)
    /\ goes(t, [threads[t] EXCEPT !.pc = "addVoice:284", !.i = Len(voices)])
    /\ UNCHANGED <<currentlyPlayingNote, locks>>
    /\ UNCHANGED <<voices, noteOnTime, lastNoteOnCounter, shouldStealVoices,
                   usableVoicesToStealArray, hookLog, lastOp>>

\* 284: stealLock is given up and the call returns.
addVoice284(t) ==
    /\ at(t, "addVoice:284")
    /\ locks' = exited(t, "stealLock")
    /\ returns(t)
    /\ UNCHANGED <<currentlyPlayingNote, races>>
    /\ poolAlone

\* ---- the calls of the threads
\* A thread that is in no call makes its next one.  addVoice brings a voice
\* just constructed: the least identity that no voice of the pool has, nor
\* the voice of an addVoice on its way to the pool.
adding == {t \in Threads : at(t, "addVoice:276") \/ at(t, "addVoice:277")}

taken == members(voices) \cup {threads[t].voice : t \in adding}

justConstructed == CHOOSE v \in LockVoiceIds \ taken :
                       \A w \in LockVoiceIds \ taken : v <= w

canCall(t) == at(t, "returned") /\ threads[t].calls < MaxCalls

callNoteAdded(t, newNote) ==
    /\ canCall(t)
    /\ goes(t, Call("noteAdded", "noteAdded:72", newNote, 0, threads[t].calls + 1))
    /\ UNCHANGED <<currentlyPlayingNote, locks, races>>
    /\ poolAlone

callNoteReleased(t, finishedNote) ==
    /\ canCall(t)
    /\ goes(t, Call("noteReleased", "noteReleased:136", finishedNote, 0,
                    threads[t].calls + 1))
    /\ UNCHANGED <<currentlyPlayingNote, locks, races>>
    /\ poolAlone

callNotePressureChanged(t, changedNote) ==
    /\ canCall(t)
    /\ goes(t, Call("notePressureChanged", "notePressureChanged:80", changedNote, 0,
                    threads[t].calls + 1))
    /\ UNCHANGED <<currentlyPlayingNote, locks, races>>
    /\ poolAlone

callSetRate(t) ==
    /\ canCall(t)
    /\ goes(t, Call("setCurrentPlaybackSampleRate", "setRate:151", NoNote, 0,
                    threads[t].calls + 1))
    /\ UNCHANGED <<currentlyPlayingNote, locks, races>>
    /\ poolAlone

callTurnOffAllVoices(t, allowTailOff) ==
    /\ canCall(t)
    /\ goes(t, [Call("turnOffAllVoices", "turnOffAllVoices:324", NoNote, 0,
                     threads[t].calls + 1)
                   EXCEPT !.ret = "returned", !.allowTailOff = allowTailOff])
    /\ UNCHANGED <<currentlyPlayingNote, locks, races>>
    /\ poolAlone

callRender(t) ==
    /\ canCall(t)
    /\ goes(t, Call("renderNextSubBlock", "render:344", NoNote, 0, threads[t].calls + 1))
    /\ UNCHANGED <<currentlyPlayingNote, locks, races>>
    /\ poolAlone

callReduceNumVoices(t, newNumVoices) ==
    /\ canCall(t)
    /\ goes(t, Call("reduceNumVoices", "reduceNumVoices:310", NoNote, newNumVoices,
                    threads[t].calls + 1))
    /\ UNCHANGED <<currentlyPlayingNote, locks, races>>
    /\ poolAlone

callAddVoice(t) ==
    /\ canCall(t)
    /\ Len(voices) + Cardinality(adding) < MaxLockVoices
    /\ goes(t, [Call("addVoice", "addVoice:276", NoNote, 0, threads[t].calls + 1)
                   EXCEPT !.voice = justConstructed])
    /\ UNCHANGED <<currentlyPlayingNote, locks, races>>
    /\ poolAlone

\* The pools the threads find: some voices idle, some playing a note whose
\* key is down, started one after the other.
LockPools ==
    UNION {[1..n -> {NoNote} \cup StartNotes] : n \in 1..MaxLockVoices}

InitLocks ==
    /\ \E held \in LockPools :
          /\ voices = [i \in 1..Len(held) |-> i]
          /\ currentlyPlayingNote =
                 [v \in AllVoiceIds |-> IF v <= Len(held) THEN held[v] ELSE NoNote]
          /\ noteOnTime =
                 [v \in AllVoiceIds |->
                     IF v <= Len(held) /\ isValid(held[v]) THEN v - 1 ELSE 0]
          /\ lastNoteOnCounter = Len(held)
          /\ numAllocated = Len(held) + 1
    /\ shouldStealVoices = TRUE
    /\ usableVoicesToStealArray = <<>>
    /\ hookLog = <<>>
    /\ lastOp = NoSearch
    /\ quiet

\* A thread that is in no call makes one.
callOf(t) ==
    \/ \E newNote \in StartNotes : callNoteAdded(t, newNote)
    \/ \E finishedNote \in ReleaseNotes : callNoteReleased(t, finishedNote)
    \/ \E changedNote \in PressureNotes : callNotePressureChanged(t, changedNote)
    \/ callRender(t)
    \/ callSetRate(t)
    \/ \E allowTailOff \in BOOLEAN : callTurnOffAllVoices(t, allowTailOff)
    \/ \E newNumVoices \in 0..(MaxLockVoices - 1) : callReduceNumVoices(t, newNumVoices)
    \/ callAddVoice(t)

\* A thread that is in a call runs its next line.
lineOf(t) ==
    \/ noteAdded72(t) \/ noteAdded74(t) \/ startVoice58(t) \/ noteAdded76(t)
    \/ findFreeVoice171(t) \/ findFreeVoice173(t) \/ findFreeVoice183(t)
    \/ findVoiceToSteal202(t) \/ findVoiceToSteal205(t) \/ findVoiceToSteal270(t)
    \/ noteReleased136(t) \/ noteReleased138(t) \/ noteReleased145(t)
    \/ \E ended \in BOOLEAN : stopVoice66(t, ended)
    \/ notePressureChanged80(t) \/ notePressureChanged82(t)
    \/ notePressureChanged87(t) \/ notePressureChanged90(t)
    \/ render344(t) \/ render346(t) \/ render351(t)
    \/ \E ended \in BOOLEAN : render349(t, ended)
    \/ setRate151(t) \/ setRate155(t) \/ setRate156(t) \/ setRate157(t)
    \/ turnOffAllVoices324(t) \/ turnOffAllVoices328(t) \/ turnOffAllVoices335(t)
    \/ \E ended \in BOOLEAN : turnOffAllVoices333(t, ended)
    \/ \E tracked \in TrackedNotes : turnOffAllVoices338(t, tracked)
    \/ reduceNumVoices310(t) \/ reduceNumVoices312(t)
    \/ reduceNumVoices314(t) \/ reduceNumVoices319(t)
    \/ addVoice276(t) \/ addVoice278(t) \/ addVoice282(t)
    \/ addVoice283(t) \/ addVoice284(t)

NextLocks == \E t \in Threads : callOf(t) \/ lineOf(t)

SpecLocks == InitLocks /\ [][NextLocks]_vars

\* The largest pool the threads find under the fair scheduler.
MaxFairVoices == 1

InitFair == InitLocks /\ Len(voices) <= MaxFairVoices

\* The threads under a fair scheduler: a thread in a call whose next line
\* can run (CriticalSection::enter can return) does run it in the end.
SpecLocksFair ==
    InitFair /\ [][NextLocks]_vars /\ \A t \in Threads : WF_vars(lineOf(t))

\* ------------------------------------- voices added while notes start
\* The calls a thread makes here, one after the other.
MaxAddCalls == 2

\* The engine as constructed, with voice stealing switched on: no voices yet
\* and no storage in the scratch array.
InitAdds ==
    /\ voices = <<>>
    /\ currentlyPlayingNote = [v \in AllVoiceIds |-> NoNote]
    /\ noteOnTime = [v \in AllVoiceIds |-> 0]
    /\ lastNoteOnCounter = 0
    /\ shouldStealVoices = TRUE
    /\ usableVoicesToStealArray = <<>>
    /\ numAllocated = 0
    /\ hookLog = <<>>
    /\ lastOp = NoSearch
    /\ quiet

canCallAgain(t) == at(t, "returned") /\ threads[t].calls < MaxAddCalls

\* A control thread plays a note.
playNote(t, newNote) ==
    /\ canCallAgain(t)
    /\ goes(t, Call("noteAdded", "noteAdded:72", newNote, 0, threads[t].calls + 1))
    /\ UNCHANGED <<currentlyPlayingNote, locks, races>>
    /\ poolAlone

\* A thread brings a voice just constructed to addVoice.
bringVoice(t) ==
    /\ canCallAgain(t)
    /\ Len(voices) + Cardinality(adding) < MaxLockVoices
    /\ goes(t, [Call("addVoice", "addVoice:276", NoNote, 0, threads[t].calls + 1)
                   EXCEPT !.voice = justConstructed])
    /\ UNCHANGED <<currentlyPlayingNote, locks, races>>
    /\ poolAlone

NextAdds ==
    \E t \in Threads :
        \/ \E newNote \in StartNotes : playNote(t, newNote)
        \/ bringVoice(t)
        \/ noteAdded72(t) \/ noteAdded74(t) \/ startVoice58(t) \/ noteAdded76(t)
        \/ findFreeVoice171(t) \/ findFreeVoice173(t) \/ findFreeVoice183(t)
        \/ findVoiceToSteal202(t) \/ findVoiceToSteal205(t) \/ findVoiceToSteal270(t)
        \/ addVoice276(t) \/ addVoice278(t) \/ addVoice282(t)
        \/ addVoice283(t) \/ addVoice284(t)

SpecAdds == InitAdds /\ [][NextAdds]_vars

\* ------------------------------------------------- the engine, in full
\* The handlers that Next leaves out: the changes of a note's dimensions,
\* all voices off and the change of the sample rate.
NextEvents ==
    \/ \E n \in PressureNotes : notePressureChanged(n)
    \/ \E n \in PitchbendNotes : notePitchbendChanged(n)
    \/ \E n \in TimbreNotes : noteTimbreChanged(n)
    \/ \E b \in BOOLEAN, s \in SUBSET VoiceIds, t \in TrackedNotes : turnOffAllVoices(b, s, t)
    \/ \E t \in TrackedNotes : setCurrentPlaybackSampleRate(t)

\* Every handler of the engine, from the engine as constructed.
SpecEngine == Init /\ [][Next \/ NextEvents]_vars

\* ------------------------------------------- the stealing heuristic alone
\* The one-to-one maps of the pool <<1, .., n>> onto 0 .. n-1: every order in
\* which n voices can have been started.  Sorter compares the stamps only, so
\* the order of the stamps is all of them that a search reads.
StartOrders(n) == {f \in [1..n -> 0..(n - 1)] : \A a, b \in 1..n : a # b => f[a] # f[b]}

\* What an earlier search can have left in the scratch array: nothing, or
\* voices in some order, among them a pointer to a voice since deleted.
LeftInScratch == {<<>>, <<MaxStealVoices, 1>>}

\* A pool of 1 .. MaxStealVoices voices, every voice active (no search for a
\* voice to steal starts otherwise), with any notes, any key states and any
\* order of starts, and the scratch array as some earlier search left it.
InitSteal ==
    /\ \E n \in 1..MaxStealVoices :
          /\ voices = [i \in 1..n |-> i]
          /\ \E notes \in [1..n -> StealNotes] :
                currentlyPlayingNote =
                    [v \in AllVoiceIds |-> IF v <= n THEN notes[v] ELSE NoNote]
          /\ \E order \in StartOrders(n) :
                noteOnTime = [v \in AllVoiceIds |-> IF v <= n THEN order[v] ELSE 0]
          /\ lastNoteOnCounter = n
          /\ numAllocated = n + 1
    /\ shouldStealVoices = TRUE
    /\ usableVoicesToStealArray \in LeftInScratch
    /\ hookLog = <<>>
    /\ lastOp = NoSearch
    /\ quiet

\* findVoiceToSteal (noteToStealVoiceFor), called on the pool as it stands.
stealVoice(noteToStealVoiceFor) ==
    LET r == findVoiceToSteal(voices, usableVoicesToStealArray, noteToStealVoiceFor) IN
    /\ usableVoicesToStealArray' = r.array
    /\ numAllocated' = ensureStorageAllocated(numAllocated, Len(r.array))
    /\ hookLog' = <<>>
    /\ UNCHANGED concurrency
    /\ lastOp' = Op("findVoiceToSteal", noteToStealVoiceFor, r.voice, TRUE, r.asserts)
    /\ UNCHANGED <<voices, currentlyPlayingNote, noteOnTime, lastNoteOnCounter,
                   shouldStealVoices>>

NextSteal == \E n \in StealRequests : stealVoice(n)

SpecSteal == InitSteal /\ [][NextSteal]_vars

\* ------------------------------------------------------- properties
\* The idle voices of the pool, by their place in it.
idleIndices == {i \in 1..Len(voices) : ~isActive(voices[i])}

\* The voices of the pool that hold a note.
activeVoices == {v \in members(voices) : isActive(v)}

\* The engine's own state: everything but the two records of what happened.
engine == <<voices, currentlyPlayingNote, noteOnTime, lastNoteOnCounter,
            shouldStealVoices, usableVoicesToStealArray, numAllocated>>

\* The active voices of a pool never share a stamp: each start takes a new
\* value of the counter.
StealKeysDistinct ==
    \A a, b \in activeVoices : a # b => noteOnTime[a] # noteOnTime[b]

\* C1: a noteAdded that finds an idle voice in the pool gives the note to the
\* idle voice with the lowest pool index, and leaves the note and the stamp
\* of every voice that was active alone.
IdleFirst ==
    [][(lastOp'.op = "noteAdded" /\ idleIndices # {}) =>
          LET first == voices[minIndex(idleIndices)] IN
          /\ lastOp'.voice = first
          /\ currentlyPlayingNote'[first] = lastOp'.note
          /\ isValid(currentlyPlayingNote'[first])
          /\ \A v \in activeVoices :
                /\ currentlyPlayingNote'[v] = currentlyPlayingNote[v]
                /\ noteOnTime'[v] = noteOnTime[v]]_vars

\* C1, reached: the first voice of a pool of two is playing, and a second
\* note has gone to the voice behind it, which was idle.
IdleFirstReached ==
    /\ lastOp.op = "noteAdded" /\ ~lastOp.stole
    /\ Len(voices) = 2
    /\ lastOp.voice = voices[2]
    /\ currentlyPlayingNote[voices[2]] = lastOp.note
    /\ isActive(voices[1])
    /\ noteOnTime[voices[1]] < noteOnTime[voices[2]]

\* C2: with no idle voice in the pool, the search of noteAdded returns what
\* findVoiceToSteal returns when stealing is allowed and no voice when it is
\* not; with an idle voice in the pool findVoiceToSteal is not called and
\* its scratch array stays as it was.  reduceNumVoices, which searches with
\* stealing allowed, calls findVoiceToSteal in the rounds that find no idle
\* voice and in no other.
StealOnlyWhenAllowed ==
    [][/\ lastOp'.op = "noteAdded" =>
             LET s == findVoiceToSteal(voices, usableVoicesToStealArray, lastOp'.note) IN
             /\ (idleIndices = {} /\ shouldStealVoices) =>
                    /\ lastOp'.stole
                    /\ lastOp'.voice = s.voice
                    /\ usableVoicesToStealArray' = s.array
                    /\ numAllocated' = ensureStorageAllocated(numAllocated, Len(s.array))
             /\ (idleIndices = {} /\ ~shouldStealVoices) =>
                    /\ ~lastOp'.stole
                    /\ lastOp'.voice = NoVoice
                    /\ usableVoicesToStealArray' = usableVoicesToStealArray
                    /\ numAllocated' = numAllocated
             /\ idleIndices # {} =>
                    /\ ~lastOp'.stole
                    /\ usableVoicesToStealArray' = usableVoicesToStealArray
                    /\ numAllocated' = numAllocated
       /\ lastOp'.op = "reduceNumVoices" =>
             lastOp'.stole = (Len(voices) - Len(voices') > Cardinality(idleIndices))
      ]_vars

\* C2, reached: a note found every voice of the pool playing and was given
\* the voice that findVoiceToSteal named.
StealOnlyWhenAllowedReached ==
    /\ lastOp.op = "noteAdded" /\ lastOp.stole
    /\ lastOp.voice \in members(voices)
    /\ shouldStealVoices
    /\ currentlyPlayingNote[lastOp.voice] = lastOp.note
    /\ usableVoicesToStealArray # <<>>

\* C3: when noteAdded has a voice for the note, that voice holds the note and
\* the value the counter had, the counter has grown by one, noteStarted() was
\* called once, on that voice, and found both written; no other voice's note
\* or stamp has changed.
StartWritesThenCalls ==
    [][(lastOp'.op = "noteAdded" /\ lastOp'.voice # NoVoice) =>
          LET voice == lastOp'.voice IN
          /\ currentlyPlayingNote'[voice] = lastOp'.note
          /\ noteOnTime'[voice] = lastNoteOnCounter
          /\ lastNoteOnCounter' = lastNoteOnCounter + 1
          /\ hookLog' = <<Hook(voice, "noteStarted", lastOp'.note, lastNoteOnCounter)>>
          /\ \A v \in AllVoiceIds \ {voice} :
                /\ currentlyPlayingNote'[v] = currentlyPlayingNote[v]
                /\ noteOnTime'[v] = noteOnTime[v]]_vars

\* C3, reached: a stolen voice has been started with the new note, and its
\* noteStarted() found the new note and a stamp that is not the one of a
\* voice just constructed.
StartWritesThenCallsReached ==
    /\ lastOp.op = "noteAdded" /\ lastOp.stole
    /\ lastOp.voice \in members(voices)
    /\ Len(hookLog) = 1
    /\ hookLog[1].voice = lastOp.voice
    /\ hookLog[1].note = lastOp.note
    /\ hookLog[1].noteOnTime = noteOnTime[lastOp.voice]
    /\ hookLog[1].noteOnTime > 0
    /\ lastNoteOnCounter = noteOnTime[lastOp.voice] + 1

\* C4: with stealing off and every voice of a nonempty pool playing, a
\* noteAdded changes nothing in the engine: no note, no stamp, not the
\* counter, not the pool; it calls no voice, finds no voice, does not go to
\* findVoiceToSteal and fails no assertion.
DroppedWhenFull ==
    [][(/\ lastOp'.op = "noteAdded"
        /\ ~shouldStealVoices
        /\ Len(voices) > 0
        /\ idleIndices = {}) =>
          /\ UNCHANGED engine
          /\ hookLog' = <<>>
          /\ lastOp'.voice = NoVoice
          /\ ~lastOp'.stole
          /\ lastOp'.asserts = {}]_vars

\* C4, reached: a note was dropped by a pool of two playing voices.
DroppedWhenFullReached ==
    /\ lastOp.op = "noteAdded"
    /\ lastOp.voice = NoVoice /\ ~lastOp.stole
    /\ ~shouldStealVoices
    /\ Len(voices) = 2
    /\ idleIndices = {}
    /\ hookLog = <<>>
    /\ lastNoteOnCounter = 2

\* C5: a noteAdded on an empty pool fails no assertion, with stealing on as
\* with stealing off.  (The pool is the same before and after a noteAdded.)
EmptyPoolFailsNothing ==
    (lastOp.op = "noteAdded" /\ voices = <<>>) => lastOp.asserts = {}

\* ---------------------------------------- properties of the heuristic
\* A search for a voice to steal has just been made on the pool as it stands
\* (stealVoice changes neither the pool nor a voice).
searched == lastOp.op = "findVoiceToSteal"

\* The voice that search returned.
stolen == lastOp.voice

\* The voices of the pool that play the note number searched for; none when
\* the search was made for no note.
samePitch ==
    IF isValid(lastOp.note)
        THEN {v \in members(voices) : initialNoteOf(v) = lastOp.note.initialNote}
        ELSE {}

\* The places in the pool of the voices that have not been released.
unreleased == {i \in 1..Len(voices) : ~isPlayingButReleased(voices[i])}

\* The voice protected as lowest: of the unreleased voices with the lowest
\* note number, the first in the pool.
expectedLow ==
    LET lowest == {i \in unreleased :
                      \A j \in unreleased : initialNoteOf(voices[i]) <= initialNoteOf(voices[j])} IN
    IF unreleased = {} THEN NoVoice ELSE voices[minIndex(lowest)]

\* The voice protected as highest: of the unreleased voices with the highest
\* note number, the first in the pool; none when that is the lowest too.
expectedTop ==
    LET highest == {i \in unreleased :
                       \A j \in unreleased : initialNoteOf(voices[i]) >= initialNoteOf(voices[j])}
        first   == IF unreleased = {} THEN NoVoice ELSE voices[minIndex(highest)] IN
    IF first = expectedLow THEN NoVoice ELSE first

\* The voices that are not protected.
unprotected == members(voices) \ {expectedLow, expectedTop}

\* Bucket (a): the unprotected voices that have been released.
bucketReleased == {v \in unprotected : isPlayingButReleased(v)}

\* Bucket (b): the unprotected voices with no finger on the key.
bucketNoFinger ==
    {v \in unprotected :
        currentlyPlayingNote[v].keyState \notin {"keyDown", "keyDownAndSustained"}}

\* The voice of a nonempty set with the smallest noteOnTime.
oldestOf(S) == CHOOSE v \in S : \A w \in S : noteOnTime[v] <= noteOnTime[w]

\* The pool's voices are exactly three, playing 40, 60 and 80 with their keys
\* down, and the search was made for no note that one of them plays.
extremalCase ==
    /\ searched
    /\ Len(voices) = 3
    /\ {initialNoteOf(v) : v \in members(voices)} = {40, 60, 80}
    /\ \A v \in members(voices) :
          currentlyPlayingNote[v].keyState \in {"keyDown", "keyDownAndSustained"}
    /\ samePitch = {}

\* C6: a search for a valid note that some voice of the pool is playing
\* returns the voice with the smallest noteOnTime among those playing that
\* note number, whatever the other voices are and whether or not it is the
\* protected lowest or highest voice.
SamePitchOldest ==
    (searched /\ samePitch # {}) => stolen = oldestOf(samePitch)

\* C6, reached: two voices play 60 and an older, released voice plays 80; a
\* search for 60 returned the older of the two, which is the protected low.
SamePitchOldestReached ==
    /\ searched /\ lastOp.note.initialNote = 60
    /\ \E a, b, c \in members(voices) :
          /\ initialNoteOf(a) = 60 /\ initialNoteOf(b) = 60 /\ initialNoteOf(c) = 80
          /\ isPlayingButReleased(c)
          /\ noteOnTime[c] < noteOnTime[a] /\ noteOnTime[a] < noteOnTime[b]
          /\ a = expectedLow
          /\ stolen = a

\* C7 as stated: with voices playing 40, 60 and 80, keys down, a search that
\* no voice matches by pitch returns the voice playing 80.
ExtremalStealsTop ==
    extremalCase => initialNoteOf(stolen) = 80

\* C7: with voices playing 40, 60 and 80, keys down, a search that no voice
\* matches by pitch returns the voice playing 60, the one voice that is
\* neither the lowest nor the highest, whatever the order of the starts.
ExtremalKeepsLowAndTop ==
    extremalCase =>
        /\ initialNoteOf(stolen) = 60
        /\ initialNoteOf(expectedLow) = 40
        /\ initialNoteOf(expectedTop) = 80

\* C7, reached: the voice playing 80 is the oldest of the three and the one
\* playing 60 the newest; a search for 61 returned the one playing 60.
ExtremalKeepsLowAndTopReached ==
    /\ extremalCase
    /\ lastOp.note.initialNote = 61
    /\ initialNoteOf(stolen) = 60
    /\ \A v \in members(voices) : noteOnTime[v] <= noteOnTime[stolen]
    /\ noteOnTime[expectedTop] = 0

\* C8: a search that no voice matches by pitch returns the oldest voice of
\* the first nonempty bucket: (a) the released voices, (b) the voices with no
\* finger on the key, (c) all voices, each without the protected lowest and
\* highest voice; it returns neither of those two while one voice is left.
BucketOrder ==
    (searched /\ samePitch = {}) =>
        /\ bucketReleased # {} => stolen = oldestOf(bucketReleased)
        /\ (bucketReleased = {} /\ bucketNoFinger # {}) => stolen = oldestOf(bucketNoFinger)
        /\ (bucketReleased = {} /\ bucketNoFinger = {} /\ unprotected # {}) =>
               stolen = oldestOf(unprotected)
        /\ unprotected # {} => stolen \in unprotected

\* C8, reached: no unprotected voice is released; the search returned a
\* sustained voice, though an unprotected voice with its key down is older.
BucketOrderReached ==
    /\ searched /\ samePitch = {}
    /\ bucketReleased = {}
    /\ stolen \in bucketNoFinger
    /\ \E v \in unprotected \ bucketNoFinger : noteOnTime[v] < noteOnTime[stolen]

\* C9: when every voice of the pool is protected and none matches by pitch,
\* the search returns the highest voice, and the lowest only when there is no
\* highest.
ProtectedTopFirst ==
    (searched /\ samePitch = {} /\ unprotected = {}) =>
        /\ expectedTop # NoVoice => stolen = expectedTop /\ stolen # expectedLow
        /\ expectedTop = NoVoice => stolen = expectedLow

\* C9, reached: the pool is a lowest and a newer highest voice, and the
\* search returned the highest.
ProtectedTopFirstReached ==
    /\ searched /\ samePitch = {} /\ unprotected = {}
    /\ expectedTop # NoVoice
    /\ stolen = expectedTop
    /\ noteOnTime[expectedLow] < noteOnTime[expectedTop]

\* The orders in which the voices of the pool can stand in it.
poolOrders ==
    {p \in [1..Len(voices) -> members(voices)] :
        \A i, j \in 1..Len(voices) : i # j => p[i] # p[j]}

\* C10: the voice a search returns depends on the voices' notes, key states
\* and stamps and on the note searched for only: the same voices standing in
\* the pool in any other order give the same voice.
StealIgnoresPoolOrder ==
    searched =>
        \A p \in poolOrders : findVoiceToSteal(p, <<>>, lastOp.note).voice = stolen

\* The rest of C10: a search returns what it returns from an empty scratch
\* array, whatever the array held, and leaves the array holding the pool's
\* voices; it changes no voice and not the pool.
StealIgnoresScratch ==
    [][lastOp'.op = "findVoiceToSteal" =>
          /\ lastOp'.voice = findVoiceToSteal(voices, <<>>, lastOp'.note).voice
          /\ members(usableVoicesToStealArray') = members(voices)
          /\ UNCHANGED <<voices, currentlyPlayingNote, noteOnTime, lastNoteOnCounter>>]_vars

\* ------------------------------------------ properties of the handlers
\* The callbacks of the four changes of a note.
changeHooks ==
    {"notePressureChanged", "notePitchbendChanged", "noteTimbreChanged",
     "noteKeyStateChanged"}

\* The voices of the pool that play a note of the identity of note.
playing(note) == {v \in members(voices) : isCurrentlyPlayingNote(v, note)}

\* The places in the log of callbacks where a voice is called.
callsOf(log, voice) == {i \in 1..Len(log) : log[i].voice = voice}

\* C11: a handler of a change of a note (pressure, pitchbend, timbre, key
\* state) that calls a voice calls every voice of the pool that was playing
\* the note, each once and with the callback of that change, after it has put
\* the event's snapshot in the place of the voice's note; it calls no other
\* voice and leaves the note of every other voice as it was.
ChangeReachesAll ==
    [][(hookLog' # <<>> /\ hookLog'[1].hook \in changeHooks) =>
          LET changedNote == hookLog'[1].note
              hit         == playing(changedNote) IN
          /\ \A i \in 1..Len(hookLog') :
                /\ hookLog'[i].hook = hookLog'[1].hook
                /\ hookLog'[i].note = changedNote
                /\ hookLog'[i].voice \in hit
          /\ \A v \in hit :
                /\ Cardinality(callsOf(hookLog', v)) = 1
                /\ currentlyPlayingNote'[v] = changedNote
          /\ \A v \in AllVoiceIds \ hit :
                currentlyPlayingNote'[v] = currentlyPlayingNote[v]
          /\ UNCHANGED <<voices, noteOnTime, lastNoteOnCounter>>]_vars

\* C11, reached: two voices were playing the same note; a pressure change of
\* that note has called both, and both hold the snapshot with the new pressure.
ChangeReachesAllReached ==
    /\ Len(hookLog) = 2
    /\ hookLog[1].hook = "notePressureChanged" /\ hookLog[2].hook = "notePressureChanged"
    /\ hookLog[1].voice # hookLog[2].voice
    /\ \A i \in 1..2 :
          /\ currentlyPlayingNote[hookLog[i].voice] = hookLog[i].note
          /\ hookLog[i].note.pressure = Moved


\* ------------------------------------------------------ properties: C12
isPrefix(a, b) == Len(a) <= Len(b) /\ \A i \in 1..Len(a) : a[i] = b[i]

releasing(t) == threads[t].op = "noteReleased"

\* C12: noteReleased stops, with the released note written to it and tail-off
\* allowed, every voice that played the note when the call got the lock, in
\* descending pool order and each once, whatever the other thread calls
\* meanwhile (reduceNumVoices included).
ReleaseStopsEveryMatch ==
    \A t \in Threads :
        releasing(t) =>
            /\ isPrefix(threads[t].log, threads[t].hits)
            /\ at(t, "stopVoice:66") =>
                   /\ currentlyPlayingNote[threads[t].voice] = threads[t].note
                   /\ threads[t].note.keyState = "off"
            /\ at(t, "returned") => threads[t].log = threads[t].hits

\* A release has stopped two voices, the first and the last of a pool of
\* three, and the other thread's reduceNumVoices has removed one of them.
ReleaseStopsEveryMatchReached ==
    \E t, u \in Threads :
        /\ releasing(t) /\ at(t, "returned")
        /\ threads[t].log = <<3, 1>>
        /\ threads[u].op = "reduceNumVoices" /\ at(u, "returned")
        /\ \E i \in 1..Len(threads[u].log) : threads[u].log[i] \in {1, 3}

\* ------------------------------------------------------ properties: C13
toldInstrument(log) == {i \in 1..Len(log) : log[i].hook = "releaseAllNotes"}

\* What a voice finds in its note when turnOffAllVoices calls it: the note it
\* had, with keyState off and the fixed note-off velocity.
offSnapshot(was, now) ==
    /\ now.keyState = "off"
    /\ now.noteOffVelocity = ForcedVelocity
    /\ noteID(now) = noteID(was)

\* C13: a turnOffAllVoices (allowTailOff) calls noteStopped (allowTailOff) on
\* every voice of the pool, idle or active, in pool order, each holding the
\* off snapshot of its note; after the last of them, and once, the instrument
\* is told to release all notes, and what follows comes from the instrument.
AllOffStopsAll ==
    [][\A allowTailOff \in BOOLEAN :
          (/\ toldInstrument(hookLog') # {}
           /\ \E silenced \in SUBSET VoiceIds, tracked \in TrackedNotes :
                 turnOffAllVoices(allowTailOff, silenced, tracked))
          => /\ toldInstrument(hookLog') = {Len(voices) + 1}
             /\ \A i \in 1..Len(voices) :
                   /\ hookLog'[i].voice = voices[i]
                   /\ hookLog'[i].hook = IF allowTailOff THEN "noteStopped (true)"
                                         ELSE "noteStopped (false)"
                   /\ offSnapshot(currentlyPlayingNote[voices[i]], hookLog'[i].note)
             /\ \A v \in members(voices) :
                   /\ currentlyPlayingNote'[v].keyState = "off"
                   /\ isValid(currentlyPlayingNote'[v]) =>
                          offSnapshot(currentlyPlayingNote[v], currentlyPlayingNote'[v])
             /\ UNCHANGED <<voices, noteOnTime, lastNoteOnCounter>>]_vars

\* An idle voice and then an active one have been stopped with tail-off
\* allowed, and then the instrument has been told.
AllOffStopsAllReached ==
    /\ Len(hookLog) >= 3
    /\ hookLog[1].hook = "noteStopped (true)" /\ ~isValid(hookLog[1].note)
    /\ hookLog[2].hook = "noteStopped (true)" /\ isValid(hookLog[2].note)
    /\ hookLog[3].hook = "releaseAllNotes"

\* ------------------------------------------------------ properties: C14
allOffBefore == lastOp.op \in {"turnOffAllVoices (true)", NoTailOnce, NoTailTwice}

allOffNow(allowTailOff) ==
    \E silenced \in SUBSET VoiceIds, tracked \in TrackedNotes :
        turnOffAllVoices(allowTailOff, silenced, tracked)

silentBefore == \A v \in members(voices) : ~isValid(currentlyPlayingNote[v])

silentAfter == \A v \in members(voices) : ~isValid(currentlyPlayingNote'[v])

activated == hookLog' # <<>> /\ hookLog'[1].hook = "noteStarted"

\* C15: a step that starts a voice stamps it with the counter and adds one to
\* the counter, so the stamp is above that of every voice started before and
\* still active; every other step of every operation leaves the counter and
\* the stamps of the voices it keeps as they are.
CounterCountsStarts ==
    [][/\ \A v \in activeVoices : noteOnTime[v] < lastNoteOnCounter
       /\ IF activated
             THEN LET started == hookLog'[1].voice IN
                  /\ lastNoteOnCounter' = lastNoteOnCounter + 1
                  /\ noteOnTime'[started] = lastNoteOnCounter
                  /\ \A v \in activeVoices \ {started} :
                        /\ noteOnTime'[v] = noteOnTime[v]
                        /\ noteOnTime'[v] < noteOnTime'[started]
             ELSE /\ lastNoteOnCounter' = lastNoteOnCounter
                  /\ \A v \in members(voices') : noteOnTime'[v] = noteOnTime[v]
       /\ \A a, b \in members(voices') :
             (/\ a # b
              /\ isValid(currentlyPlayingNote'[a])
              /\ isValid(currentlyPlayingNote'[b])) => noteOnTime'[a] # noteOnTime'[b]]_vars

\* A second voice has just been started while the first still plays: stamps
\* 0 and 1, counter 2.
CounterCountsStartsReached ==
    /\ hookLog # <<>> /\ hookLog[1].hook = "noteStarted"
    /\ Len(voices) = 2
    /\ isActive(voices[1]) /\ isActive(voices[2])
    /\ {noteOnTime[voices[1]], noteOnTime[voices[2]]} = {0, 1}
    /\ lastNoteOnCounter = 2

\* ------------------------------------------------------ properties: C16
rendering(t) == threads[t].op = "renderNextSubBlock" /\ ~at(t, "returned")

\* The pool index of a voice of the pool.
indexOf(v) == CHOOSE i \in 1..Len(voices) : voices[i] = v

\* What holds at every line of a renderNextSubBlock: it has the lock; the
\* voice it is calling is active; the voices it has called are voices of the
\* part of the pool it has passed, in pool order and each once, and every
\* voice of that part that it has not called is inactive.
renderScan(t) ==
    LET me     == threads[t]
        passed == {voices[i] : i \in 1..me.i}
        called == {me.log[k] : k \in 1..Len(me.log)} \cup
                  (IF at(t, "render:349") THEN {me.voice} ELSE {}) IN
    at(t, "render:344") \/
        /\ holds(t, "voicesLock")
        /\ at(t, "render:349") => isActive(me.voice) /\ voices[me.i] = me.voice
        /\ at(t, "render:351") => me.i = Len(voices)
        /\ called \subseteq passed
        /\ \A j, k \in 1..Len(me.log) :
              j < k => indexOf(me.log[j]) < indexOf(me.log[k])
        /\ \A v \in passed \ called : ~isActive(v)

\* A step of a renderNextSubBlock leaves the pool, the stamps, the counter
\* and the notes alone; only the voice being called may end its own sound.
renderStep(t) ==
    /\ UNCHANGED <<voices, noteOnTime, lastNoteOnCounter, shouldStealVoices,
                   usableVoicesToStealArray, numAllocated>>
    /\ \A v \in AllVoiceIds :
          \/ currentlyPlayingNote'[v] = currentlyPlayingNote[v]
          \/ /\ at(t, "render:349") /\ v = threads[t].voice
             /\ currentlyPlayingNote'[v] = NoNote

\* C16: renderNextSubBlock, inside voicesLock for its whole scan, calls
\* renderNextBlock once on every voice that is active when the scan comes to
\* it, in pool order, and on no inactive voice; it changes neither the pool
\* nor a note nor a stamp.
RenderActiveInOrder ==
    /\ [](\A t \in Threads : rendering(t) => renderScan(t))
    /\ [][\A t \in Threads :
             (rendering(t) /\ threads'[t] # threads[t]) => renderStep(t)]_vars

\* A render is through a pool of three: it has called the first voice and
\* the third, and the second is idle.
RenderActiveInOrderReached ==
    \E t \in Threads :
        /\ rendering(t) /\ at(t, "render:351")
        /\ Len(voices) = 3
        /\ threads[t].log = <<voices[1], voices[3]>>
        /\ ~isActive(voices[2])

\* ------------------------------------------------------ properties: C17
\* t has written the note or the stamp of v and the callback it then made
\* on v has not returned.
inHook(t, v) ==
    /\ threads[t].voice = v
    /\ \/ at(t, "startVoice:58") \/ at(t, "stopVoice:66")
       \/ at(t, "notePressureChanged:87")

\* t is in renderNextBlock of v.
inRender(t, v) == at(t, "render:349") /\ threads[t].voice = v

\* C17: while one thread is between its write of a voice's note or stamp and
\* the return of the callback it makes for it, no other thread is in the
\* render of that voice; a voice is not in a callback of one thread and in
\* the render or a callback of another.
RenderNeverMidUpdate ==
    \A t, u \in Threads : \A v \in AllVoiceIds :
        (t # u /\ inHook(t, v)) => ~inRender(u, v) /\ ~inHook(u, v)

\* A control thread is in the noteStopped of a voice, which is active, and
\* the render thread has called renderNextSubBlock and waits for the lock.
RenderNeverMidUpdateReached ==
    \E t, u \in Threads : \E v \in AllVoiceIds :
        /\ t # u /\ inHook(t, v)
        /\ at(t, "stopVoice:66") /\ isActive(v)
        /\ at(u, "render:344") /\ ~canEnter(u, "voicesLock")

\* ------------------------------------------------------ properties: C18
\* C18: every line that reads or writes the pool (its size included) or a
\* field of a voice is run by a thread that is inside voicesLock.  addVoice
\* reads voices.size() at line 283 inside stealLock only, after it has left
\* voicesLock at line 279, while another thread may be changing the pool.
EveryAccessLocked == races = {}

\* ------------------------------------------------------ properties: C19
NoLock == "none"

\* The lock the line a thread is at enters.
wantsLock(t) ==
    IF threads[t].pc \in {"noteAdded:72", "noteReleased:136", "notePressureChanged:80",
                          "findFreeVoice:171", "addVoice:276", "reduceNumVoices:310",
                          "render:344", "setRate:151", "turnOffAllVoices:324"}
        THEN "voicesLock"
    ELSE IF threads[t].pc \in {"findVoiceToSteal:202", "addVoice:282"} THEN "stealLock"
    ELSE NoLock

\* The thread is at such a line and another thread is inside the lock.
waits(t) == wantsLock(t) # NoLock /\ ~canEnter(t, wantsLock(t))

\* The step takes t into voicesLock, or one level deeper into it.
entersVoicesLock(t) ==
    /\ locks'["voicesLock"].owner = t
    /\ locks'["voicesLock"].depth > locks["voicesLock"].depth

\* C19: a thread inside stealLock is never at a line that enters voicesLock,
\* and no step takes a thread into voicesLock while it is inside stealLock:
\* a thread inside both has entered voicesLock first.  So two threads never
\* wait for each other, and while a thread is in a call some thread in a
\* call is not waiting for a lock.
LockOrder ==
    /\ [](\A t \in Threads : holds(t, "stealLock") => wantsLock(t) # "voicesLock")
    /\ [][\A t \in Threads : entersVoicesLock(t) => ~holds(t, "stealLock")]_vars
    /\ [](\A t, u \in Threads :
             ~(/\ t # u /\ waits(t) /\ waits(u)
               /\ locks[wantsLock(t)].owner = u
               /\ locks[wantsLock(u)].owner = t))
    /\ []((\E t \in Threads : ~at(t, "returned")) =>
             \E t \in Threads : ~at(t, "returned") /\ ~waits(t))

\* One thread is inside voicesLock and stealLock, in findVoiceToSteal, and
\* the other, in addVoice, waits for stealLock.
LockOrderReached ==
    \E t, u \in Threads :
        /\ holds(t, "voicesLock") /\ holds(t, "stealLock")
        /\ at(t, "findVoiceToSteal:205")
        /\ at(u, "addVoice:282") /\ waits(u)

\* ------------------------------------------------------ properties: C20
\* The voices a step takes out of the pool.
removed == members(voices) \ members(voices')

\* The voice the stealing heuristic names when it is asked for no note.
heuristicChoice == findVoiceToSteal(voices, <<>>, NoNote).voice

\* C20: every step of reduceNumVoices that takes a voice out of the pool takes
\* one voice and keeps the order of the others; it takes the idle voice of
\* lowest pool index if a voice is idle, else the voice findVoiceToSteal
\* names for no note, else the first voice of the pool.
ReduceIdleFirst ==
    [][removed # {} =>
          /\ voices' = without(voices, removed)
          /\ removed =
                 IF idleIndices # {} THEN {voices[minIndex(idleIndices)]}
                 ELSE IF heuristicChoice # NoVoice THEN {heuristicChoice}
                 ELSE {voices[1]}]_vars

\* A reduceNumVoices has taken the idle second voice out of a pool whose
\* first voice is active and still there.
ReduceIdleFirstReached ==
    \E t \in Threads :
        /\ threads[t].op = "reduceNumVoices" /\ at(t, "returned")
        /\ threads[t].log = <<2>>
        /\ Len(voices) >= 1 /\ voices[1] = 1 /\ isActive(1)

\* ------------------------------------------------------ properties: C21
settingRate(t) ==
    threads[t].op = "setCurrentPlaybackSampleRate" /\ ~at(t, "returned")

\* The call has begun to give the voices the rate.
givingRate(t) ==
    at(t, "setRate:155") \/ at(t, "setRate:156") \/ at(t, "setRate:157")

\* C21: setCurrentPlaybackSampleRate is inside voicesLock from its first
\* line to its last, so no other thread is in a callback or in the render
\* of a voice meanwhile; a voice is told noteStopped (false) with keyState
\* off and the forced velocity in its note; when the first voice is given
\* the rate every voice of the pool has been stopped, in pool order, and is
\* silent; at the end every voice of the pool has been given the rate once.
SilenceThenRate ==
    \A t \in Threads :
        (settingRate(t) /\ ~at(t, "setRate:151")) =>
            /\ holds(t, "voicesLock")
            /\ \A u \in Threads \ {t} :
                  ~holds(u, "voicesLock") /\
                  threads[u].pc \notin {"render:349", "startVoice:58", "stopVoice:66",
                                        "notePressureChanged:87"}
            /\ at(t, "turnOffAllVoices:333") =>
                  /\ currentlyPlayingNote[threads[t].voice].keyState = "off"
                  /\ currentlyPlayingNote[threads[t].voice].noteOffVelocity = ForcedVelocity
            /\ isPrefix(threads[t].log, voices)
            /\ isPrefix(threads[t].rates, reversed(voices))
            /\ givingRate(t) =>
                  /\ threads[t].log = voices
                  /\ \A v \in members(voices) : ~isActive(v)
            /\ ~givingRate(t) => threads[t].rates = <<>>
            /\ at(t, "setRate:157") => threads[t].rates = reversed(voices)

\* A setCurrentPlaybackSampleRate on a pool of three, of which a voice was
\* playing, has stopped the three and given the rate to the three, while the
\* other thread waits to render.
SilenceThenRateReached ==
    \E t, u \in Threads :
        /\ settingRate(t) /\ at(t, "setRate:157")
        /\ threads[t].log = <<1, 2, 3>> /\ threads[t].rates = <<3, 2, 1>>
        /\ noteOnTime[3] = 2
        /\ at(u, "render:344")

\* ------------------------------------------------------ properties: C22
\* The step is one of the four operations of the pool.
poolOperation ==
    \/ \E newVoice \in VoiceIds : addVoice(newVoice)
    \/ \E index \in 0..(MaxVoices - 1) : removeVoice(index)
    \/ clearVoices
    \/ \E newNumVoices \in 0..MaxVoices : reduceNumVoices(newNumVoices)

\* The order of two voices of the pool that stay in it.
before(pool, a, b) ==
    \E i, j \in 1..Len(pool) : i < j /\ pool[i] = a /\ pool[j] = b

\* C22: a step that changes the pool is an addVoice, a removeVoice, a
\* clearVoices or a reduceNumVoices; the pool grows only by an addVoice, by
\* one voice put at its end; the voices that stay keep their order.  Every
\* other handler (the searches for a voice it makes included) leaves the
\* pool as it is.
PoolChangesByPoolOperations ==
    [][/\ voices' # voices => poolOperation
       /\ Len(voices') > Len(voices) =>
             \E newVoice \in VoiceIds \ members(voices) :
                 addVoice(newVoice) /\ voices' = Append(voices, newVoice)
       /\ \A a, b \in members(voices) \cap members(voices') :
             before(voices, a, b) => before(voices', a, b)]_vars

\* A setCurrentPlaybackSampleRate has left alone a pool whose order is no
\* longer that of the voices' identities.
PoolChangesByPoolOperationsReached ==
    /\ voices = <<2, 1>>
    /\ hookLog # <<>> /\ hookLog[Len(hookLog)].hook = "setCurrentSampleRate"
    /\ lastNoteOnCounter > 0

\* ------------------------------------------------------ properties: C23
\* C23: addVoice puts the voice at the end of the pool and gives the scratch
\* array storage, so that whenever a search for a voice to steal runs, also
\* with addVoice called from several threads, the scratch array has storage
\* for every voice of the pool and the search allocates nothing.
SearchNeverAllocates ==
    \A t \in Threads :
        at(t, "findVoiceToSteal:205") => numAllocated >= Len(voices)

\* ------------------------------------------------------ properties: C24
\* The voices of a pool keep the note and the start they have.
keptAsIs(pool) ==
    \A v \in members(pool) :
        /\ currentlyPlayingNote'[v] = currentlyPlayingNote[v]
        /\ noteOnTime'[v] = noteOnTime[v]

\* C24: removeVoice and clearVoices take the voice out of the pool in that
\* step, active or not, and call no voice: the pool after removeVoice is the
\* voices before the index followed by the voices after it, each with its
\* note and its start; after clearVoices it is empty.  No handler calls a
\* voice that is not in the pool, so a voice taken out is not rendered and
\* plays no later note.
RemoveTakesOutAtOnce ==
    [][/\ \A index \in 0..(MaxVoices - 1) :
             removeVoice(index) =>
                 /\ voices' = SubSeq(voices, 1, index)
                                  \o SubSeq(voices, index + 2, Len(voices))
                 /\ keptAsIs(voices')
                 /\ hookLog' = <<>>
       /\ clearVoices => voices' = <<>> /\ hookLog' = <<>>
       /\ \A i \in 1..Len(hookLog') \ toldInstrument(hookLog') :
             hookLog'[i].voice \in members(voices) \cap members(voices')]_vars

\* The first of two voices, both started, has been taken out while it played:
\* the other plays on with the start it had.
RemoveTakesOutAtOnceReached ==
    /\ voices = <<2>>
    /\ isActive(2) /\ noteOnTime[2] = 1
    /\ lastNoteOnCounter = 2
    /\ hookLog = <<>> /\ lastOp = NoSearch

\* ------------------------------------------------------ properties: C25
\* low and top as the scan of the pool leaves them (lines 207-232), before
\* top is compared with low.
scanned ==
    stealScan(voices, 1, [array |-> <<>>, low |-> NoVoice, top |-> NoVoice,
                          asserts |-> {}])

\* The places of the unreleased voices whose note number none of them is
\* below, and of those whose note number none of them is above.
lowestPlaces ==
    {i \in unreleased :
        \A j \in unreleased : initialNoteOf(voices[i]) <= initialNoteOf(voices[j])}

highestPlaces ==
    {i \in unreleased :
        \A j \in unreleased : initialNoteOf(voices[i]) >= initialNoteOf(voices[j])}

\* C25: after the scan of a search, low is the unreleased voice with the
\* lowest initialNote and top the unreleased voice with the highest, each the
\* first in pool order of those with that note; a released voice is neither,
\* and when every voice is released there is no low and no top.
ProtectedExtremes ==
    searched =>
        /\ unreleased = {} => scanned.low = NoVoice /\ scanned.top = NoVoice
        /\ unreleased # {} =>
              /\ scanned.low = voices[minIndex(lowestPlaces)]
              /\ scanned.top = voices[minIndex(highestPlaces)]
        /\ \A v \in members(voices) :
              isPlayingButReleased(v) => v # scanned.low /\ v # scanned.top

\* A search on a pool of three: the first voice released on the lowest note
\* of all, the other two unreleased on one note.
ProtectedExtremesReached ==
    /\ searched
    /\ voices = <<1, 2, 3>>
    /\ isPlayingButReleased(1) /\ initialNoteOf(1) = 40
    /\ unreleased = {2, 3}
    /\ initialNoteOf(2) = 60 /\ initialNoteOf(3) = 60
    /\ scanned.low = 2 /\ scanned.top = 2

\* ------------------------------------------------------ properties: C26
\* The search just made, with low and top as its loops used them.
lastSearch == findVoiceToSteal(voices, <<>>, lastOp.note)

\* C26: a search returns a voice, and never one that is low and top at once.
\* When the scan leaves one voice as low and as top, top is cleared before
\* the loops run: the voice is protected as low only, and it is returned only
\* as a voice that plays the note number asked for or when it is the whole
\* pool.
ProtectedOnce ==
    searched =>
        /\ stolen = lastSearch.voice /\ stolen \in members(voices)
        /\ ~(stolen = lastSearch.low /\ stolen = lastSearch.top)
        /\ (scanned.low # NoVoice /\ scanned.low = scanned.top) =>
              /\ lastSearch.low = scanned.low
              /\ lastSearch.top = NoVoice
              /\ stolen = scanned.low =>
                    stolen \in samePitch \/ members(voices) = {stolen}

\* Of three voices on one note the second is low and top after the scan, the
\* first being released; it is returned for a note of that number.
ProtectedOnceReached ==
    /\ searched
    /\ voices = <<1, 2, 3>>
    /\ scanned.low = 2 /\ scanned.top = 2
    /\ isValid(lastOp.note)
    /\ stolen = 2

\* ------------------------------------------------------ properties: C27
\* t is in findVoiceToSteal, before or in its scan of the pool.
stealing(t) == at(t, "findVoiceToSteal:202") \/ at(t, "findVoiceToSteal:205")

\* C27: while a thread that came through findFreeVoice (from noteAdded or
\* from reduceNumVoices) is in findVoiceToSteal, every voice of the pool is
\* active, whatever the other thread is doing (a render call that would end
\* a voice's sound included): the scan's jassert (voice->isActive()) fails
\* for no voice.
ScanFindsAllActive ==
    \A t \in Threads :
        stealing(t) =>
            /\ threads[t].op \in {"noteAdded", "reduceNumVoices"}
            /\ holds(t, "voicesLock")
            /\ \A v \in members(voices) : isActive(v)
            /\ "voice->isActive()" \notin
                   findVoiceToSteal(voices, usableVoicesToStealArray,
                                    threads[t].note).asserts

\* A reduceNumVoices is about to scan a pool of two for a voice to steal
\* while a render call of the other thread waits for voicesLock.
ScanFindsAllActiveReached ==
    \E t, u \in Threads :
        /\ at(t, "findVoiceToSteal:205") /\ threads[t].op = "reduceNumVoices"
        /\ Len(voices) = 2
        /\ at(u, "render:344")

\* ------------------------------------------------------ properties: C28
\* The step writes the counter, a voice's note or a voice's noteOnTime.
writesVoiceState ==
    \/ lastNoteOnCounter' # lastNoteOnCounter
    \/ currentlyPlayingNote' # currentlyPlayingNote
    \/ noteOnTime' # noteOnTime

\* The active voices of the pool hold pairwise distinct noteOnTime, all below
\* the counter.
stampsDistinct ==
    \A v, w \in members(voices) :
        isActive(v) /\ isActive(w) /\ v # w =>
            /\ noteOnTime[v] # noteOnTime[w]
            /\ noteOnTime[v] < lastNoteOnCounter

\* The step of t is the return of instrument.releaseAllNotes(): what it
\* writes is written by the calls of noteReleased the instrument makes on
\* this thread, each of them inside voicesLock from line 136 on, which the
\* thread can enter.
writesInCallbacks(t) ==
    at(t, "turnOffAllVoices:338") /\ canEnter(t, "voicesLock")

\* C28: the counter, the voices' notes and their noteOnTime are written only
\* in a step of a thread that holds voicesLock, or that takes it for the
\* callbacks the step is made of.  A step that stamps a voice
\* of the pool gives it the counter's value and moves the counter on by one,
\* and the counter never goes back: two noteAdded on two threads find
\* different values there, and no two active voices hold the same stamp.
StartsUnderLock ==
    /\ []stampsDistinct
    /\ [][/\ writesVoiceState =>
                \E t \in Threads :
                    /\ holds(t, "voicesLock") \/ writesInCallbacks(t)
                    /\ \A u \in Threads \ {t} : threads'[u] = threads[u]
          /\ lastNoteOnCounter' >= lastNoteOnCounter
          /\ \A v \in members(voices') :
                noteOnTime'[v] # noteOnTime[v] =>
                    /\ noteOnTime'[v] = lastNoteOnCounter
                    /\ lastNoteOnCounter' = lastNoteOnCounter + 1]_vars

\* Both threads have started a note, each on its own voice: the stamps are
\* the two values the counter went through.
StartsUnderLockReached ==
    \E t, u \in Threads :
        /\ t # u
        /\ threads[t].op = "noteAdded" /\ at(t, "returned")
        /\ threads[u].op = "noteAdded" /\ at(u, "startVoice:58")
        /\ threads[t].voice # NoVoice /\ threads[u].voice # NoVoice
        /\ threads[t].voice # threads[u].voice
        /\ noteOnTime[threads[u].voice] = noteOnTime[threads[t].voice] + 1
        /\ lastNoteOnCounter = noteOnTime[threads[u].voice] + 1

\* ------------------------------------------------------ properties: C29
\* t is at a line that reads or writes the scratch array.
inScratch(t) ==
    \/ at(t, "findVoiceToSteal:205") \/ at(t, "findVoiceToSteal:270")
    \/ at(t, "addVoice:283") \/ at(t, "addVoice:284")

\* C29: a thread at a line that reads or writes the scratch array holds
\* stealLock, so no two threads are at such lines together, and the array
\* and its storage change only in a step of the thread that holds stealLock.
\* When a search has chosen, the scratch array holds the voices of the pool
\* as it stands, each once: none that an earlier search left, none that has
\* left the pool.
ScratchUnderStealLock ==
    /\ [](\A t \in Threads :
             /\ inScratch(t) =>
                   /\ holds(t, "stealLock")
                   /\ \A u \in Threads \ {t} : ~inScratch(u)
             /\ at(t, "findVoiceToSteal:270") =>
                   /\ members(usableVoicesToStealArray) = members(voices)
                   /\ Len(usableVoicesToStealArray) = Len(voices))
    /\ [][(usableVoicesToStealArray' # usableVoicesToStealArray
              \/ numAllocated' # numAllocated) =>
             \E t \in Threads :
                 /\ holds(t, "stealLock")
                 /\ \A u \in Threads \ {t} : threads'[u] = threads[u]]_vars

\* A reduceNumVoices (0) on a pool of three is down to one voice, and its
\* search has chosen with the scratch array holding that voice alone, while
\* an addVoice of the other thread waits for voicesLock.
ScratchUnderStealLockReached ==
    \E t, u \in Threads :
        /\ at(t, "findVoiceToSteal:270") /\ threads[t].op = "reduceNumVoices"
        /\ threads[t].n = 0
        /\ Len(voices) = 1 /\ lastNoteOnCounter = 3
        /\ usableVoicesToStealArray = voices
        /\ at(u, "addVoice:276")

\* ------------------------------------------------------ properties: C30
\* t is in no call and inside no lock.
outside(t) ==
    /\ at(t, "returned")
    /\ ~holds(t, "voicesLock") /\ ~holds(t, "stealLock")

\* C30: under a fair scheduler every call that has started returns, a render
\* call (which first has to get voicesLock) as well as a note event or an
\* operation of the pool, and the thread that has returned is inside no lock.
EveryCallReturns ==
    /\ [](\A t \in Threads : at(t, "returned") => outside(t))
    /\ \A t \in Threads : (~at(t, "returned")) ~> outside(t)
    /\ \A t \in Threads : at(t, "render:344") ~> at(t, "render:346")

\* A render call waits for voicesLock while a reduceNumVoices, inside it, is
\* about to look for a voice to steal.
EveryCallReturnsReached ==
    \E t, u \in Threads :
        /\ at(t, "render:344")
        /\ threads[u].op = "reduceNumVoices" /\ at(u, "findVoiceToSteal:202")
        /\ holds(u, "voicesLock")

\* ------------------------------------------------------ properties: C31
\* t is about to enter voicesLock inside a handler that is inside it already:
\* findFreeVoice called by noteAdded or reduceNumVoices, turnOffAllVoices
\* called by setCurrentPlaybackSampleRate.
nested(t) ==
    \/ /\ at(t, "findFreeVoice:171")
       /\ threads[t].op \in {"noteAdded", "reduceNumVoices"}
    \/ /\ at(t, "turnOffAllVoices:324")
       /\ threads[t].op = "setCurrentPlaybackSampleRate"

\* C31: voicesLock is re-entrant for its owner.  A thread about to enter it
\* from inside noteAdded, reduceNumVoices or setCurrentPlaybackSampleRate
\* owns it, so the enter does not wait and makes the hold one deeper; the
\* lock gets an owner only when it has none, and loses its owner only at the
\* exit that matches the first enter; a thread that has returned from an
\* operation is inside neither lock.
ReentrantForOwner ==
    /\ [](\A t \in Threads :
             /\ nested(t) => holds(t, "voicesLock") /\ canEnter(t, "voicesLock")
             /\ at(t, "returned") =>
                   ~holds(t, "voicesLock") /\ ~holds(t, "stealLock"))
    /\ [](\A lock \in {"voicesLock", "stealLock"} :
             (locks[lock].owner = NoOwner) <=> (locks[lock].depth = 0))
    /\ [][/\ \A t \in Threads :
                nested(t) /\ threads'[t] # threads[t] =>
                    locks'.voicesLock =
                        [owner |-> t, depth |-> locks.voicesLock.depth + 1]
          /\ locks'.voicesLock.owner # locks.voicesLock.owner =>
                \/ locks.voicesLock.owner = NoOwner
                \/ /\ locks'.voicesLock.owner = NoOwner
                   /\ locks.voicesLock.depth = 1]_vars

\* setCurrentPlaybackSampleRate is in the loop of turnOffAllVoices, twice
\* inside voicesLock, while a render call of the other thread waits for it.
ReentrantForOwnerReached ==
    \E t, u \in Threads :
        /\ threads[t].op = "setCurrentPlaybackSampleRate"
        /\ at(t, "turnOffAllVoices:328")
        /\ locks.voicesLock = [owner |-> t, depth |-> 2]
        /\ at(u, "render:344")

\* ------------------------------------------------------ properties: C32
\* C32: a thread inside voicesLock takes no lock but stealLock and calls
\* nothing outside the engine and its voices: the thread that is about to
\* call instrument.releaseAllNotes() is not inside voicesLock, whether
\* turnOffAllVoices was called on its own or by
\* setCurrentPlaybackSampleRate.
ReleaseAllNotesOutsideLock ==
    \A t \in Threads :
        at(t, "turnOffAllVoices:338") => ~holds(t, "voicesLock")

\* ------------------------------------------------------ properties: C33
\* C33: on a pool that is not empty and whose voices are all active, the
\* search returns a voice of the pool, never nullptr, and none of its
\* assertions fails, for a note or for none and whatever the voices' key
\* states; so the findFreeVoice of a noteAdded with stealing allowed has a
\* voice to start there.
StealAlwaysFinds ==
    searched =>
        /\ voices # <<>> /\ \A v \in members(voices) : isActive(v)
        /\ stolen # NoVoice /\ stolen \in members(voices)
        /\ lastOp.asserts = {}
        /\ isValid(lastOp.note) =>
              findFreeVoice(voices, usableVoicesToStealArray, lastOp.note, TRUE).voice
                  \in members(voices)

\* Two voices with their keys down, on the lowest and the highest note: both
\* are protected, and a search for no note returns the one on top.
StealAlwaysFindsReached ==
    /\ searched /\ ~isValid(lastOp.note)
    /\ voices = <<1, 2>>
    /\ initialNoteOf(1) = 40 /\ initialNoteOf(2) = 80
    /\ currentlyPlayingNote[1].keyState = "keyDown"
    /\ currentlyPlayingNote[2].keyState = "keyDown"
    /\ stolen = 2

\* ------------------------------------------------------ properties: C34
\* The thread is in a call of reduceNumVoices.
reducing(t) == threads[t].op = "reduceNumVoices" /\ ~at(t, "returned")

\* The lines a call of reduceNumVoices goes through: none of them is a hook
\* of a voice.
reduceLines ==
    {"reduceNumVoices:310", "reduceNumVoices:312", "reduceNumVoices:314",
     "reduceNumVoices:319", "findFreeVoice:171", "findFreeVoice:173",
     "findFreeVoice:183", "findVoiceToSteal:202", "findVoiceToSteal:205",
     "findVoiceToSteal:270"}

\* The size of the pool when the loop of the call began: the voices still
\* there and the ones the call has taken out.
previousSize(t) == Len(voices) + Len(threads[t].log)

\* The lesser of two numbers.
lesser(a, b) == IF a < b THEN a ELSE b

\* C34: reduceNumVoices (n) with n >= 0 comes to its end: every round of the
\* loop begins with more than n voices and takes exactly one voice out, so
\* that at the end of the loop the pool has min (previous size, n) voices;
\* the voices that remain keep their order, their notes and their
\* noteOnTime, and the call goes through no hook of a voice.
ReduceToSize ==
    /\ [](\A t \in Threads :
            /\ reducing(t) => threads[t].pc \in reduceLines /\ threads[t].n >= 0
            /\ reducing(t) /\ at(t, "reduceNumVoices:314") => Len(voices) > threads[t].n
            /\ reducing(t) /\ at(t, "reduceNumVoices:319") =>
                   Len(voices) = lesser(previousSize(t), threads[t].n))
    /\ [][\A t \in Threads :
             reducing(t) /\ threads'[t] # threads[t] =>
                 /\ hookLog' = hookLog
                 /\ IF at(t, "reduceNumVoices:314")
                       THEN /\ Cardinality(removed) = 1
                            /\ Len(voices') = Len(voices) - 1
                            /\ voices' = without(voices, removed)
                            /\ threads'[t].pc = "reduceNumVoices:312"
                       ELSE voices' = voices
                 /\ \A v \in members(voices') :
                        /\ currentlyPlayingNote'[v] = currentlyPlayingNote[v]
                        /\ noteOnTime'[v] = noteOnTime[v]]_vars

\* A reduceNumVoices (1) is at the end of its loop after two rounds: of three
\* active voices the third, which it was not told to take, is left.
ReduceToSizeReached ==
    \E t \in Threads :
        /\ threads[t].op = "reduceNumVoices" /\ at(t, "reduceNumVoices:319")
        /\ threads[t].n = 1 /\ Len(threads[t].log) = 2
        /\ Len(voices) = 1 /\ isActive(voices[1])

\* ------------------------------------------------------ properties: C35
\* The thread is about to start the voice that findFreeVoice has stolen for
\* its note: a voice that is playing.
startsStolen(t) ==
    /\ threads[t].op = "noteAdded" /\ at(t, "noteAdded:74")
    /\ threads[t].found # NoVoice /\ isActive(threads[t].found)

\* The voices of the pool other than v are as they were.
othersKept(v) ==
    \A u \in members(voices) \ {v} :
        /\ currentlyPlayingNote'[u] = currentlyPlayingNote[u]
        /\ noteOnTime'[u] = noteOnTime[u]

\* C35: when noteAdded has stolen a playing voice it writes the new note and
\* the counter into the voice and goes to the voice's noteStarted, never to
\* its noteStopped; the stolen voice then has the greatest noteOnTime of the
\* pool, every other voice is as it was, and the call has started one voice
\* when it returns.
StolenVoiceRestarted ==
    /\ [](\A t \in Threads :
            threads[t].op = "noteAdded" =>
                /\ ~at(t, "stopVoice:66")
                /\ threads[t].log \in {<<>>, <<threads[t].voice>>}
                /\ at(t, "noteAdded:76") /\ threads[t].voice # NoVoice =>
                       /\ threads[t].log = <<threads[t].voice>>
                       /\ currentlyPlayingNote[threads[t].voice] = threads[t].note
                       /\ \A u \in members(voices) \ {threads[t].voice} :
                              noteOnTime[u] < noteOnTime[threads[t].voice])
    /\ [][\A t \in Threads :
             startsStolen(t) /\ threads'[t] # threads[t] =>
                 LET v == threads[t].found IN
                 /\ v \in members(voices) /\ voices' = voices
                 /\ currentlyPlayingNote'[v] = threads[t].note
                 /\ noteOnTime'[v] = lastNoteOnCounter
                 /\ lastNoteOnCounter' = lastNoteOnCounter + 1
                 /\ \A u \in members(voices) \ {v} : noteOnTime'[u] < noteOnTime'[v]
                 /\ othersKept(v)
                 /\ hookLog' = hookLog
                 /\ threads'[t].pc = "startVoice:58" /\ threads'[t].voice = v
                 /\ threads'[t].log = <<>>]_vars
    /\ [][\A t \in Threads :
             threads[t].op = "noteAdded" /\ at(t, "startVoice:58")
                 /\ threads'[t] # threads[t] =>
                 /\ threads'[t].log = <<threads[t].voice>>
                 /\ threads'[t].pc = "noteAdded:76"
                 /\ othersKept(NoVoice)]_vars

\* A noteAdded on a pool of three playing voices, the other thread in no
\* call yet, has searched the three and restarted the second with its note
\* and the stamp 3; the first and the third play on with stamps 0 and 2.
StolenVoiceRestartedReached ==
    \E t, u \in Threads :
        /\ t # u /\ threads[u].calls = 0
        /\ threads[t].op = "noteAdded" /\ at(t, "noteAdded:76")
        /\ Len(voices) = 3 /\ Len(usableVoicesToStealArray) = 3
        /\ threads[t].log = <<2>>
        /\ currentlyPlayingNote[2] = threads[t].note
        /\ noteOnTime[2] = 3 /\ lastNoteOnCounter = 4
        /\ isActive(1) /\ noteOnTime[1] = 0
        /\ isActive(3) /\ noteOnTime[3] = 2

\* ------------------------------------------------------ properties: C36
\* All the candidates collected and sorted once: the voice in place i is the
\* one with i - 1 voices of the pool started before it.
sortedOnce(pool) ==
    [i \in 1..Len(pool) |->
        CHOOSE v \in members(pool) :
            Cardinality({u \in members(pool) : noteOnTime[u] < noteOnTime[v]}) = i - 1]

\* The voice the rules of the search take from an array, with low and top
\* as the scan of the pool leaves them.
takenFrom(arr) ==
    LET low == scanned.low
        top == eliminatePathological(scanned.low, scanned.top)
        r1  == stealSamePitch(arr, lastOp.note)
        r2  == stealReleased(arr, low, top)
        r3  == stealNoFinger(arr, low, top)
        r4  == stealUnprotected(arr, low, top) IN
    IF r1 # NoVoice THEN r1
    ELSE IF r2 # NoVoice THEN r2
    ELSE IF r3 # NoVoice THEN r3
    ELSE IF r4 # NoVoice THEN r4
    ELSE stealProtected(low, top)

\* C36: on a pool whose voices have pairwise distinct noteOnTime, the scratch
\* array that is sorted again after each voice added is at the end of the
\* scan what collecting all the voices and sorting once gives, all the
\* voices of the pool in ascending noteOnTime, and the voice returned is the
\* one the rules take from that array.
SortOnceSame ==
    searched /\ StealKeysDistinct =>
        /\ usableVoicesToStealArray = sortedOnce(voices)
        /\ Len(usableVoicesToStealArray) = Len(voices)
        /\ members(usableVoicesToStealArray) = members(voices)
        /\ \A i, j \in 1..Len(usableVoicesToStealArray) :
               i < j => noteOnTime[usableVoicesToStealArray[i]]
                            < noteOnTime[usableVoicesToStealArray[j]]
        /\ stolen = takenFrom(sortedOnce(voices))

\* A search of three voices started third, first and second: the array was
\* <<1>>, then <<2, 1>>, then <<2, 3, 1>>; all three keys are up, so the
\* search for no note returns the second voice, the oldest, and not the
\* first of the pool.
SortOnceSameReached ==
    /\ searched /\ ~isValid(lastOp.note)
    /\ voices = <<1, 2, 3>>
    /\ noteOnTime[1] = 2 /\ noteOnTime[2] = 0 /\ noteOnTime[3] = 1
    /\ usableVoicesToStealArray = <<2, 3, 1>>
    /\ \A v \in 1..3 : isPlayingButReleased(v)
    /\ stolen = 2
====
